---- MODULE Spec2Model ----
(***************************************************************************)
(* Document-assembly core of the report platform: the safe condition       *)
(* evaluator (core/conditions_engine.py), block resolution                 *)
(* (conditions_engine.py, reports/informe_auditoria/logic.py), and the     *)
(* OOXML engine's variable replacement (core/xml_word_engine.py,           *)
(* core/word_engine.py).                                                   *)
(*                                                                         *)
(* Text is a sequence of one-character strings.  A Python value is a       *)
(* record [ty, n, s, el]: ty is the type tag, n the number (int, bool),    *)
(* s the characters (str), el the elements (list).                        *)
(***************************************************************************)
EXTENDS Integers, Sequences, FiniteSets, TLC

VARIABLES
    \* ---- condition evaluator: evaluate_condition(condition, context)
    condition,      \* the expression string handed to evaluate_condition
    context,        \* the context mapping (variable name -> value)
    cond_pc,        \* "idle" | "ready" | "done"
    cond_result,    \* the boolean evaluate_condition returned
    cond_raised,    \* the exception that left evaluate_condition ("" for none)
    cond_log,       \* the variable names visit_Name looked up, in order
    context_after,  \* the context when evaluate_condition returned
    \* ---- block resolution
    blocks,         \* the declared blocks: <<[id, reglas]>>
    blk_pc,         \* "idle" | "ready" | "done"
    blk_op,         \* the operation that ran
    blk_arg,        \* index of the block evaluate_block / procesar_bloque ran on
    blk_result,     \* what evaluate_block / procesar_bloque returned
    blk_map,        \* the mapping evaluate_all_blocks / procesar_todos returned
    blk_evaluated,  \* the rule indexes whose condition was evaluated, in order
    \* ---- structured-condition builder
    cond_dict,      \* the argument of build_condition_from_dict
    bld_pc,         \* "idle" | "ready" | "built" | "done"
    bld_expr,       \* the expression string build_condition_from_dict returned
    \* ---- OOXML engine / render
    paragraphs,     \* the document: a sequence of paragraphs, each a sequence of text nodes
    render_ctx,     \* the context handed to render_word_report, as <<[key, value]>>
    engine_kind,    \* "xml" | "jinja": the path render_word_report takes
    ctx_filtered,   \* the (key, value) entries handed to variable substitution
    rv_pc,          \* "idle" | "start" | "loop" | "done"
    rv_para,        \* index of the paragraph replace_variables works on
    rv_key,         \* index in ctx_filtered of the entry it works on (0: none yet)
    rv_replaced,    \* per paragraph, the entries replaced in it, in order
    \* ---- XMLWordEngineAdapter: the document tree and the operations on it
    root,           \* the children of w:body, in document order
    root_before,    \* the tree when the last operation was called
    eng_op,         \* the operation that ran last ("" for none)
    eng_arg,        \* its arguments
    eng_steps,      \* how many operations have run
    initial_drawings,   \* self._initial_drawings
    initial_sections,   \* self._initial_sections
    eng_raised,     \* the exception the last operation raised ("" for none)
    \* ---- render_word_report / _render_with_xml_engine
    rnd_pc,         \* the statement the render is at
    rnd_env,        \* what the render was called with: template, context, file system
    rnd_trace,      \* the engine methods called so far, in order
    rnd_result,     \* what render_word_report returned ("" while running)
    rnd_output,     \* what the output path holds: "absent" | "document"
    \* ---- table validation and table building
    tab_pc,         \* "idle" | "ready" | "done"
    tab_def,        \* the TableDefinition handed to validate_table_data
    tab_data,       \* the rows handed to validate_table_data
    tab_result,     \* what validate_table_data returned / raised
    ov_cfg,         \* tables_config["operaciones_vinculadas"]
    ov_rows,        \* table_inputs["operaciones_vinculadas"]
    ov_result,      \* what build_operaciones_vinculadas returned / raised
    \* ---- reports/informe_auditoria/logic.py: plural markers and build_context
    lgc_pc,         \* "idle" | "ready" | "done"
    lgc_op,         \* the function that ran ("" for none)
    lgc_text,       \* the text handed to apply_plural_markers
    lgc_n,          \* the count handed to apply_plural_markers
    lgc_result,     \* the text apply_plural_markers returned
    data_in,        \* the user's input handed to build_context
    bloques_texto,  \* processor.bloques_texto: the blocks the configuration declares
    lgc_context,    \* the context build_context returned
    \* ---- XMLWordEngineAdapter: temporary directories
    tmp_pc,         \* per engine instance, the statement it is at
    tmp_dirs,       \* the temporary directories that exist, by name
    tmp_owner,      \* per engine instance, self.temp_dir (0 before mkdtemp)
    tmp_created,    \* the directory names mkdtemp has returned
    tmp_env         \* per engine instance, block_temp and the fragments it has inserted

cond_vars == <<condition, context, cond_pc, cond_result, cond_raised, cond_log, context_after>>
blk_vars == <<blocks, blk_pc, blk_op, blk_arg, blk_result, blk_map, blk_evaluated>>
bld_vars == <<cond_dict, bld_pc, bld_expr>>
doc_vars == <<paragraphs, render_ctx, engine_kind, ctx_filtered, rv_pc, rv_para, rv_key, rv_replaced>>
eng_vars == <<root, root_before, eng_op, eng_arg, eng_steps, initial_drawings, initial_sections,
              eng_raised>>
rnd_vars == <<rnd_pc, rnd_env, rnd_trace, rnd_result, rnd_output>>
tab_vars == <<tab_pc, tab_def, tab_data, tab_result, ov_cfg, ov_rows, ov_result>>
lgc_vars == <<lgc_pc, lgc_op, lgc_text, lgc_n, lgc_result, data_in, bloques_texto, lgc_context>>
tmp_vars == <<tmp_pc, tmp_dirs, tmp_owner, tmp_created, tmp_env>>
vars == <<cond_vars, blk_vars, bld_vars, doc_vars, eng_vars, rnd_vars, tab_vars, lgc_vars, tmp_vars>>

(***************************************************************************)
(* Text helpers.                                                           *)
(***************************************************************************)
QUOTE == "'"
BSLASH == "\\"
SPACE == " "

Letters == {"a", "b", "c", "f", "v", "x", "y", "z", "_",
            "T", "F", "N", "r", "u", "e", "l", "s", "o", "n", "d", "t", "i", "m", "p"}
Digits == {"0", "1", "2", "3", "4", "5", "6", "7", "8", "9"}

DigitVal(c) ==
    CASE c = "0" -> 0 [] c = "1" -> 1 [] c = "2" -> 2 [] c = "3" -> 3 [] c = "4" -> 4
      [] c = "5" -> 5 [] c = "6" -> 6 [] c = "7" -> 7 [] c = "8" -> 8 [] c = "9" -> 9

DigitChar(d) ==
    CASE d = 0 -> "0" [] d = 1 -> "1" [] d = 2 -> "2" [] d = 3 -> "3" [] d = 4 -> "4"
      [] d = 5 -> "5" [] d = 6 -> "6" [] d = 7 -> "7" [] d = 8 -> "8" [] d = 9 -> "9"

\* str.startswith at an offset: does `pat` sit in `text` from position i (1-based)
StartsWithAt(text, pat, i) ==
    /\ i + Len(pat) - 1 <= Len(text)
    /\ \A k \in 1..Len(pat) : text[i + k - 1] = pat[k]

\* Python's `pat in text` for strings
Contains(text, pat) == \E i \in 1..(Len(text) + 1) : StartsWithAt(text, pat, i)

\* str.index: the first offset (1-based) where pat occurs
IndexOf(text, pat) ==
    CHOOSE i \in 1..(Len(text) + 1) :
        /\ StartsWithAt(text, pat, i)
        /\ \A j \in 1..(i - 1) : ~StartsWithAt(text, pat, j)

\* str.strip() == '' : only whitespace
IsBlankText(text) == \A i \in 1..Len(text) : text[i] = SPACE

RECURSIVE Flatten(_)
Flatten(seqs) == IF seqs = <<>> THEN <<>> ELSE Head(seqs) \o Flatten(Tail(seqs))

\* sep.join(parts)
RECURSIVE Join(_, _)
Join(sep, parts) ==
    IF parts = <<>> THEN <<>>
    ELSE IF Len(parts) = 1 THEN parts[1]
    ELSE parts[1] \o sep \o Join(sep, Tail(parts))

(***************************************************************************)
(* Python values.                                                          *)
(***************************************************************************)
PyNone == [ty |-> "none", n |-> 0, s |-> <<>>, el |-> <<>>]
PyBool(b) == [ty |-> "bool", n |-> IF b THEN 1 ELSE 0, s |-> <<>>, el |-> <<>>]
PyInt(i) == [ty |-> "int", n |-> i, s |-> <<>>, el |-> <<>>]
PyStr(chars) == [ty |-> "str", n |-> 0, s |-> chars, el |-> <<>>]
PyList(elts) == [ty |-> "list", n |-> 0, s |-> <<>>, el |-> elts]
PyTuple(elts) == [ty |-> "tuple", n |-> 0, s |-> <<>>, el |-> elts]

IsNumber(v) == v.ty \in {"int", "bool"}

\* bool(v)
Truthy(v) ==
    CASE v.ty = "none" -> FALSE
      [] v.ty \in {"bool", "int"} -> v.n # 0
      [] v.ty = "str" -> v.s # <<>>
      [] v.ty \in {"list", "tuple"} -> v.el # <<>>

\* a == b on scalars (True == 1; a str never equals a number or None)
ScalarEq(a, b) ==
    CASE IsNumber(a) /\ IsNumber(b) -> a.n = b.n
      [] a.ty = "str" /\ b.ty = "str" -> a.s = b.s
      [] a.ty = "none" /\ b.ty = "none" -> TRUE
      [] OTHER -> FALSE

\* a == b
PyEq(a, b) ==
    IF a.ty \in {"list", "tuple"} \/ b.ty \in {"list", "tuple"}
    THEN /\ a.ty = b.ty
         /\ Len(a.el) = Len(b.el)
         /\ \A i \in 1..Len(a.el) : ScalarEq(a.el[i], b.el[i])
    ELSE ScalarEq(a, b)

\* code points of the characters the model's strings use, for str < str
CharOrd(c) ==
    CASE c = SPACE -> 32 [] c = QUOTE -> 39 [] c = BSLASH -> 92
      [] c \in Digits -> 48 + DigitVal(c)
      [] c = "a" -> 97 [] c = "b" -> 98 [] c = "z" -> 122
      [] OTHER -> 100

RECURSIVE TextLess(_, _)
TextLess(a, b) ==
    IF b = <<>> THEN FALSE
    ELSE IF a = <<>> THEN TRUE
    ELSE IF CharOrd(Head(a)) < CharOrd(Head(b)) THEN TRUE
    ELSE IF CharOrd(Head(a)) > CharOrd(Head(b)) THEN FALSE
    ELSE TextLess(Tail(a), Tail(b))

\* whether a < b is defined on scalars (otherwise Python raises TypeError)
ScalarOrderable(a, b) ==
    \/ IsNumber(a) /\ IsNumber(b)
    \/ a.ty = "str" /\ b.ty = "str"

ScalarLt(a, b) == IF a.ty = "str" THEN TextLess(a.s, b.s) ELSE a.n < b.n

\* the first index where two sequences of scalars differ (0: one is a prefix of the other)
FirstDiff(xs, ys) ==
    LET m == IF Len(xs) < Len(ys) THEN Len(xs) ELSE Len(ys)
        D == {i \in 1..m : ~ScalarEq(xs[i], ys[i])}
    IN  IF D = {} THEN 0 ELSE CHOOSE i \in D : \A j \in D : i <= j

\* whether a < b is defined: numbers, two strings, or two lists (two tuples)
\* whose first differing elements are ordered
Orderable(a, b) ==
    IF a.ty \in {"list", "tuple"} /\ a.ty = b.ty
    THEN LET d == FirstDiff(a.el, b.el) IN d = 0 \/ ScalarOrderable(a.el[d], b.el[d])
    ELSE ScalarOrderable(a, b)

\* a < b, for Orderable(a, b)
PyLt(a, b) ==
    IF a.ty \in {"list", "tuple"}
    THEN LET d == FirstDiff(a.el, b.el) IN
         IF d = 0 THEN Len(a.el) < Len(b.el) ELSE ScalarLt(a.el[d], b.el[d])
    ELSE ScalarLt(a, b)

\* whether `a in b` is defined (otherwise TypeError)
InDefined(a, b) ==
    \/ b.ty \in {"list", "tuple"}
    \/ b.ty = "str" /\ a.ty = "str"

\* a in b, for InDefined(a, b)
PyIn(a, b) ==
    IF b.ty = "str" THEN Contains(b.s, a.s)
    ELSE \E i \in 1..Len(b.el) : PyEq(a, b.el[i])

\* a is b: identity of the singletons None, True, False and of cached small
\* integers; two strings of equal content are one interned object; a list or
\* tuple built by the evaluator is a fresh object
PyIs(a, b) ==
    CASE a.ty = "none" \/ b.ty = "none" -> a.ty = b.ty
      [] a.ty \in {"list", "tuple"} \/ b.ty \in {"list", "tuple"} -> FALSE
      [] OTHER -> a.ty = b.ty /\ a.n = b.n /\ a.s = b.s

\* str(v) for the values a context holds
RECURSIVE NatText(_)
NatText(k) == IF k < 10 THEN <<DigitChar(k)>> ELSE NatText(k \div 10) \o <<DigitChar(k % 10)>>

PyStrOf(v) ==
    CASE v.ty = "none" -> <<"N", "o", "n", "e">>
      [] v.ty = "bool" -> IF v.n = 1 THEN <<"T", "r", "u", "e">> ELSE <<"F", "a", "l", "s", "e">>
      [] v.ty = "int" -> IF v.n < 0 THEN <<"-">> \o NatText(-v.n) ELSE NatText(v.n)
      [] v.ty = "str" -> v.s
      [] OTHER -> <<"[", "]">>

(***************************************************************************)
(* ast.parse(condition, mode='eval'): Python's tokenizer and expression    *)
(* grammar, for the constructs conditions use (names, literals, not,       *)
(* unary sign, comparisons, and/or, parentheses, lists) and the ones the   *)
(* evaluator must reject (calls, attributes, binary arithmetic).  Input    *)
(* strings hold no string-prefix letter directly before a quote, no        *)
(* comment, no line break outside a literal and no numeric escape.         *)
(***************************************************************************)
Keywords == {<<"a", "n", "d">>, <<"o", "r">>, <<"n", "o", "t">>, <<"i", "n">>, <<"i", "s">>,
             <<"T", "r", "u", "e">>, <<"F", "a", "l", "s", "e">>, <<"N", "o", "n", "e">>,
             <<"i", "m", "p", "o", "r", "t">>}
Ops2 == {<<"=", "=">>, <<"!", "=">>, <<"<", "=">>, <<">", "=">>, <<":", "=">>}
Ops1 == {"<", ">", "(", ")", "[", "]", ",", "+", "-", ".", "="}

Token(k, s, v) == [k |-> k, s |-> s, v |-> v]
ErrToken == Token("err", <<>>, PyNone)

\* the end (exclusive) of the run of characters of `class` that starts at i
RECURSIVE RunEnd(_, _, _)
RunEnd(text, i, class) ==
    IF i <= Len(text) /\ text[i] \in class THEN RunEnd(text, i + 1, class) ELSE i

RECURSIVE DigitsVal(_, _)
DigitsVal(chars, acc) ==
    IF chars = <<>> THEN acc ELSE DigitsVal(Tail(chars), 10 * acc + DigitVal(Head(chars)))

\* one escape sequence of a string literal: backslash followed by c
Unescape(c) ==
    CASE c = QUOTE -> <<QUOTE>>
      [] c = BSLASH -> <<BSLASH>>
      [] c = "n" -> <<"\n">>
      [] OTHER -> <<BSLASH, c>>

\* the body of a string literal from position i (after the opening quote):
\* [ok, val, next]; a literal the input ends inside is an error
RECURSIVE ScanString(_, _, _)
ScanString(text, i, acc) ==
    IF i > Len(text) THEN [ok |-> FALSE, val |-> acc, next |-> i]
    ELSE IF text[i] = QUOTE THEN [ok |-> TRUE, val |-> acc, next |-> i + 1]
    ELSE IF text[i] = "\n" THEN [ok |-> FALSE, val |-> acc, next |-> i]
    ELSE IF text[i] = BSLASH
         THEN IF i + 1 > Len(text) THEN [ok |-> FALSE, val |-> acc, next |-> i]
              ELSE ScanString(text, i + 2, acc \o Unescape(text[i + 1]))
    ELSE ScanString(text, i + 1, acc \o <<text[i]>>)

\* the tokens of text from position i; an untokenizable rest gives an err token
RECURSIVE Tokenize(_, _)
Tokenize(text, i) ==
    IF i > Len(text) THEN <<>>
    ELSE LET c == text[i] IN
      IF c = SPACE THEN Tokenize(text, i + 1)
      ELSE IF c \in Letters THEN
        LET j == RunEnd(text, i, Letters \cup Digits)
            w == SubSeq(text, i, j - 1)
        IN  <<Token(IF w \in Keywords THEN "kw" ELSE "name", w, PyNone)>> \o Tokenize(text, j)
      ELSE IF c \in Digits THEN
        LET j == RunEnd(text, i, Digits) IN
        IF j <= Len(text) /\ text[j] \in Letters THEN <<ErrToken>>
        ELSE <<Token("num", <<>>, PyInt(DigitsVal(SubSeq(text, i, j - 1), 0)))>>
                 \o Tokenize(text, j)
      ELSE IF c = QUOTE THEN
        LET r == ScanString(text, i + 1, <<>>) IN
        IF r.ok THEN <<Token("str", <<>>, PyStr(r.val))>> \o Tokenize(text, r.next)
        ELSE <<ErrToken>>
      ELSE IF i < Len(text) /\ <<c, text[i + 1]>> \in Ops2 THEN
        <<Token("op", <<c, text[i + 1]>>, PyNone)>> \o Tokenize(text, i + 2)
      ELSE IF c \in Ops1 THEN <<Token("op", <<c>>, PyNone)>> \o Tokenize(text, i + 1)
      ELSE <<ErrToken>>

\* ---- AST nodes: [t, id, val, ops, kids]
Node(t, id, val, ops, kids) == [t |-> t, id |-> id, val |-> val, ops |-> ops, kids |-> kids]
Constant(v) == Node("Constant", <<>>, v, <<>>, <<>>)
Name(id) == Node("Name", id, PyNone, <<>>, <<>>)
UnaryOp(op, operand) == Node("UnaryOp", <<>>, PyNone, <<op>>, <<operand>>)
BoolOp(op, values) == Node("BoolOp", <<>>, PyNone, <<op>>, values)
Compare(left, ops, comparators) == Node("Compare", <<>>, PyNone, ops, <<left>> \o comparators)
ListNode(elts) == Node("List", <<>>, PyNone, <<>>, elts)
TupleNode(elts) == Node("Tuple", <<>>, PyNone, <<>>, elts)
Call(func, args) == Node("Call", <<>>, PyNone, <<>>, <<func>> \o args)
Attribute(value, attr) == Node("Attribute", attr, PyNone, <<>>, <<value>>)
BinOp(left, op, right) == Node("BinOp", <<>>, PyNone, <<op>>, <<left, right>>)
ErrNode == Node("Error", <<>>, PyNone, <<>>, <<>>)

Parsed(node, pos) == [ok |-> TRUE, node |-> node, pos |-> pos]
ParseFail == [ok |-> FALSE, node |-> ErrNode, pos |-> 0]

IsTok(toks, i, k, s) == i <= Len(toks) /\ toks[i].k = k /\ toks[i].s = s
IsOp(toks, i, s) == IsTok(toks, i, "op", s)
IsKw(toks, i, s) == IsTok(toks, i, "kw", s)

\* the comparison operator at position i: [ok, op, next]
CompOpAt(toks, i) ==
    CASE IsOp(toks, i, <<"=", "=">>) -> [ok |-> TRUE, op |-> "Eq", next |-> i + 1]
      [] IsOp(toks, i, <<"!", "=">>) -> [ok |-> TRUE, op |-> "NotEq", next |-> i + 1]
      [] IsOp(toks, i, <<"<">>) -> [ok |-> TRUE, op |-> "Lt", next |-> i + 1]
      [] IsOp(toks, i, <<"<", "=">>) -> [ok |-> TRUE, op |-> "LtE", next |-> i + 1]
      [] IsOp(toks, i, <<">">>) -> [ok |-> TRUE, op |-> "Gt", next |-> i + 1]
      [] IsOp(toks, i, <<">", "=">>) -> [ok |-> TRUE, op |-> "GtE", next |-> i + 1]
      [] IsKw(toks, i, <<"i", "n">>) -> [ok |-> TRUE, op |-> "In", next |-> i + 1]
      [] IsKw(toks, i, <<"n", "o", "t">>) /\ IsKw(toks, i + 1, <<"i", "n">>)
           -> [ok |-> TRUE, op |-> "NotIn", next |-> i + 2]
      [] IsKw(toks, i, <<"i", "s">>) /\ IsKw(toks, i + 1, <<"n", "o", "t">>)
           -> [ok |-> TRUE, op |-> "IsNot", next |-> i + 2]
      [] IsKw(toks, i, <<"i", "s">>) -> [ok |-> TRUE, op |-> "Is", next |-> i + 1]
      [] OTHER -> [ok |-> FALSE, op |-> "", next |-> i]

\* The parser is recursive descent over the token list.  Every production is
\* a pair: Parse<X> parses the next operand and hands the result to <X>Rest,
\* which decides how the production continues.
RECURSIVE ParseDisjunction(_, _, _), DisjunctionRest(_, _, _),
          ParseConjunction(_, _, _), ConjunctionRest(_, _, _),
          ParseInversion(_, _), ParseComparison(_, _, _, _, _),
          ComparisonRest(_, _, _, _, _), ParseSum(_, _, _, _), SumRest(_, _, _, _),
          ParseFactor(_, _), ParsePrimary(_, _), ParseTrailers(_, _, _),
          ArgumentsRest(_, _, _), ParseAtom(_, _), ParseStrings(_, _, _),
          ParseElements(_, _, _, _), ElementsRest(_, _, _, _)

\* disjunction: conjunction ('or' conjunction)*; values are the operands
\* parsed so far, i is where the next one starts, a is the operand just parsed
ParseDisjunction(toks, i, values) ==
    DisjunctionRest(toks, values, ParseConjunction(toks, i, <<>>))

DisjunctionRest(toks, values, a) ==
    IF ~a.ok THEN ParseFail
    ELSE IF IsKw(toks, a.pos, <<"o", "r">>)
         THEN ParseDisjunction(toks, a.pos + 1, Append(values, a.node))
    ELSE IF values = <<>> THEN a
    ELSE Parsed(BoolOp("Or", Append(values, a.node)), a.pos)

\* conjunction: inversion ('and' inversion)*
ParseConjunction(toks, i, values) ==
    ConjunctionRest(toks, values, ParseInversion(toks, i))

ConjunctionRest(toks, values, a) ==
    IF ~a.ok THEN ParseFail
    ELSE IF IsKw(toks, a.pos, <<"a", "n", "d">>)
         THEN ParseConjunction(toks, a.pos + 1, Append(values, a.node))
    ELSE IF values = <<>> THEN a
    ELSE Parsed(BoolOp("And", Append(values, a.node)), a.pos)

\* a unary operator applied to a parsed operand
UnaryOf(op, a) == IF ~a.ok THEN ParseFail ELSE Parsed(UnaryOp(op, a.node), a.pos)

\* inversion: 'not' inversion | comparison
ParseInversion(toks, i) ==
    IF IsKw(toks, i, <<"n", "o", "t">>)
    THEN UnaryOf("Not", ParseInversion(toks, i + 1))
    ELSE ParseComparison(toks, i, <<>>, <<>>, <<>>)

\* comparison: sum (compop sum)*; first is the left operand (<<>> before it
\* is parsed), ops and comparators what followed it so far
ParseComparison(toks, i, first, ops, comparators) ==
    ComparisonRest(toks, first, ops, comparators, ParseSum(toks, i, <<>>, ""))

ComparisonRest(toks, first, ops, comparators, a) ==
    IF ~a.ok THEN ParseFail
    ELSE IF CompOpAt(toks, a.pos).ok
         THEN ParseComparison(toks, CompOpAt(toks, a.pos).next,
                              IF first = <<>> THEN <<a.node>> ELSE first,
                              Append(ops, CompOpAt(toks, a.pos).op),
                              IF first = <<>> THEN <<>> ELSE Append(comparators, a.node))
    ELSE IF first = <<>> THEN a
    ELSE Parsed(Compare(first[1], ops, Append(comparators, a.node)), a.pos)

\* sum: factor (('+' | '-') factor)*; left is the sum parsed so far (<<>>
\* for none) and op the operator after it
ParseSum(toks, i, left, op) == SumRest(toks, left, op, ParseFactor(toks, i))

SumRest(toks, left, op, a) ==
    IF ~a.ok THEN ParseFail
    ELSE IF IsOp(toks, a.pos, <<"+">>) \/ IsOp(toks, a.pos, <<"-">>)
         THEN ParseSum(toks, a.pos + 1,
                       <<IF left = <<>> THEN a.node ELSE BinOp(left[1], op, a.node)>>,
                       IF IsOp(toks, a.pos, <<"+">>) THEN "Add" ELSE "Sub")
    ELSE Parsed(IF left = <<>> THEN a.node ELSE BinOp(left[1], op, a.node), a.pos)

\* factor: ('+' | '-') factor | primary
ParseFactor(toks, i) ==
    IF IsOp(toks, i, <<"+">>) \/ IsOp(toks, i, <<"-">>)
    THEN UnaryOf(IF IsOp(toks, i, <<"+">>) THEN "UAdd" ELSE "USub", ParseFactor(toks, i + 1))
    ELSE ParsePrimary(toks, ParseAtom(toks, i))

\* primary: atom trailer*
ParsePrimary(toks, a) ==
    IF ~a.ok THEN ParseFail ELSE ParseTrailers(toks, a.pos, a.node)

\* trailer: '.' NAME | '(' [arguments] ')'
ParseTrailers(toks, i, node) ==
    IF IsOp(toks, i, <<".">>)
    THEN IF i + 1 <= Len(toks) /\ toks[i + 1].k = "name"
         THEN ParseTrailers(toks, i + 2, Attribute(node, toks[i + 1].s))
         ELSE ParseFail
    ELSE IF IsOp(toks, i, <<"(">>)
    THEN ArgumentsRest(toks, node, ParseElements(toks, i + 1, <<")">>, <<>>))
    ELSE Parsed(node, i)

ArgumentsRest(toks, func, e) ==
    IF ~e.ok THEN ParseFail ELSE ParseTrailers(toks, e.pos, Call(func, e.node.kids))

\* adjacent string literals are one constant
ParseStrings(toks, i, acc) ==
    IF i <= Len(toks) /\ toks[i].k = "str"
    THEN ParseStrings(toks, i + 1, acc \o toks[i].v.s)
    ELSE Parsed(Constant(PyStr(acc)), i)

\* the elements between brackets: kids are the elements, id is <<",">> when
\* a comma occurred
Elements(acc, comma, pos) ==
    Parsed(Node("Elements", IF comma THEN <<",">> ELSE <<>>, PyNone, <<>>, acc), pos)

\* comma-separated expressions up to the closing bracket; a trailing comma
\* is allowed
ParseElements(toks, i, close, acc) ==
    IF IsOp(toks, i, close)
    THEN Elements(acc, acc # <<>>, i + 1)
    ELSE ElementsRest(toks, close, acc, ParseDisjunction(toks, i, <<>>))

ElementsRest(toks, close, acc, a) ==
    IF ~a.ok THEN ParseFail
    ELSE IF IsOp(toks, a.pos, <<",">>)
         THEN ParseElements(toks, a.pos + 1, close, Append(acc, a.node))
    ELSE IF IsOp(toks, a.pos, close)
         THEN Elements(Append(acc, a.node), acc # <<>>, a.pos + 1)
    ELSE ParseFail

\* what brackets around the parsed elements denote: a list, a parenthesised
\* expression or a tuple
Bracketed(open, e) ==
    IF ~e.ok THEN ParseFail
    ELSE IF open = <<"[">> THEN Parsed(ListNode(e.node.kids), e.pos)
    ELSE IF Len(e.node.kids) = 1 /\ e.node.id = <<>> THEN Parsed(e.node.kids[1], e.pos)
    ELSE Parsed(TupleNode(e.node.kids), e.pos)

\* atom: NAME | NUMBER | STRING+ | True | False | None | '(' ... ')' | '[' ... ']'
ParseAtom(toks, i) ==
    IF i > Len(toks) THEN ParseFail
    ELSE CASE toks[i].k = "name" -> Parsed(Name(toks[i].s), i + 1)
           [] toks[i].k = "num" -> Parsed(Constant(toks[i].v), i + 1)
           [] toks[i].k = "str" -> ParseStrings(toks, i, <<>>)
           [] toks[i].k = "kw" /\ toks[i].s = <<"T", "r", "u", "e">> ->
                Parsed(Constant(PyBool(TRUE)), i + 1)
           [] toks[i].k = "kw" /\ toks[i].s = <<"F", "a", "l", "s", "e">> ->
                Parsed(Constant(PyBool(FALSE)), i + 1)
           [] toks[i].k = "kw" /\ toks[i].s = <<"N", "o", "n", "e">> ->
                Parsed(Constant(PyNone), i + 1)
           [] toks[i].k = "op" /\ toks[i].s \in {<<"(">>, <<"[">>} ->
                Bracketed(toks[i].s,
                          ParseElements(toks, i + 1,
                                        IF toks[i].s = <<"(">> THEN <<")">> ELSE <<"]">>, <<>>))
           [] OTHER -> ParseFail

\* ast.parse(condition, mode='eval'): [ok, node]; ok = FALSE is SyntaxError.
\* A condition that starts with a space is an IndentationError.
ParseComplete(toks, p) == IF p.ok /\ p.pos = Len(toks) + 1 THEN p ELSE ParseFail

ParseTokens(toks) == ParseComplete(toks, ParseDisjunction(toks, 1, <<>>))

ast_parse(text) ==
    IF text # <<>> /\ text[1] = SPACE THEN ParseFail ELSE ParseTokens(Tokenize(text, 1))

(***************************************************************************)
(* SafeConditionEvaluator: the visitor.  A visit returns [exc, val, log]:  *)
(* the exception it raised ("" for none), the value, and the names         *)
(* visit_Name looked up, in evaluation order.                              *)
(***************************************************************************)
Ret(v, log) == [exc |-> "", val |-> v, log |-> log]
Raise(e, log) == [exc |-> e, val |-> PyNone, log |-> log]

\* one comparison `left op right` of visit_Compare: [exc, res]
CompareOp(op, left, right) ==
    CASE op = "Eq" -> [exc |-> "", res |-> PyEq(left, right)]
      [] op = "NotEq" -> [exc |-> "", res |-> ~PyEq(left, right)]
      [] op = "Lt" -> IF Orderable(left, right) THEN [exc |-> "", res |-> PyLt(left, right)]
                      ELSE [exc |-> "TypeError", res |-> FALSE]
      [] op = "LtE" -> IF Orderable(left, right) THEN [exc |-> "", res |-> ~PyLt(right, left)]
                       ELSE [exc |-> "TypeError", res |-> FALSE]
      [] op = "Gt" -> IF Orderable(left, right) THEN [exc |-> "", res |-> PyLt(right, left)]
                      ELSE [exc |-> "TypeError", res |-> FALSE]
      [] op = "GtE" -> IF Orderable(left, right) THEN [exc |-> "", res |-> ~PyLt(left, right)]
                       ELSE [exc |-> "TypeError", res |-> FALSE]
      [] op = "In" -> IF InDefined(left, right) THEN [exc |-> "", res |-> PyIn(left, right)]
                      ELSE [exc |-> "TypeError", res |-> FALSE]
      [] op = "NotIn" -> IF InDefined(left, right) THEN [exc |-> "", res |-> ~PyIn(left, right)]
                         ELSE [exc |-> "TypeError", res |-> FALSE]
      [] op = "Is" -> [exc |-> "", res |-> PyIs(left, right)]
      [] op = "IsNot" -> [exc |-> "", res |-> ~PyIs(left, right)]
      [] OTHER -> [exc |-> "ValueError", res |-> FALSE]

\* a visit_Name that raises NameError for a name the context does not define
visit_Name_raising(node, ctx) ==
    IF node.id = <<"T", "r", "u", "e">> THEN Ret(PyBool(TRUE), <<>>)
    ELSE IF node.id = <<"F", "a", "l", "s", "e">> THEN Ret(PyBool(FALSE), <<>>)
    ELSE IF node.id = <<"N", "o", "n", "e">> THEN Ret(PyNone, <<>>)
    ELSE IF node.id \in DOMAIN ctx THEN Ret(ctx[node.id], <<node.id>>)
    ELSE Raise("NameError", <<node.id>>)

visit_Name(node, ctx) ==
    IF node.id = <<"T", "r", "u", "e">> THEN Ret(PyBool(TRUE), <<>>)
    ELSE IF node.id = <<"F", "a", "l", "s", "e">> THEN Ret(PyBool(FALSE), <<>>)
    ELSE IF node.id = <<"N", "o", "n", "e">> THEN Ret(PyNone, <<>>)
    ELSE IF node.id \in DOMAIN ctx THEN Ret(ctx[node.id], <<node.id>>)
    ELSE Ret(PyNone, <<node.id>>)

visit_Constant(node) == Ret(node.val, <<>>)

generic_visit(node) == Raise("ValueError", <<>>)

RECURSIVE visit(_, _), visit_BoolOp(_, _), AllValues(_, _, _, _), AnyValues(_, _, _, _),
          visit_UnaryOp(_, _), visit_Compare(_, _), CompareChain(_, _, _, _, _),
          VisitElts(_, _, _, _, _), visit_List(_, _), visit_Tuple(_, _),
          CompareChainKeepLeft(_, _, _, _, _)

\* all(self.visit(value) for value in node.values), from the k-th value on
AllValues(node, ctx, k, log) ==
    IF k > Len(node.kids) THEN Ret(PyBool(TRUE), log)
    ELSE LET r == visit(node.kids[k], ctx) IN
         IF r.exc # "" THEN Raise(r.exc, log \o r.log)
         ELSE IF ~Truthy(r.val) THEN Ret(PyBool(FALSE), log \o r.log)
         ELSE AllValues(node, ctx, k + 1, log \o r.log)

\* any(self.visit(value) for value in node.values), from the k-th value on
AnyValues(node, ctx, k, log) ==
    IF k > Len(node.kids) THEN Ret(PyBool(FALSE), log)
    ELSE LET r == visit(node.kids[k], ctx) IN
         IF r.exc # "" THEN Raise(r.exc, log \o r.log)
         ELSE IF Truthy(r.val) THEN Ret(PyBool(TRUE), log \o r.log)
         ELSE AnyValues(node, ctx, k + 1, log \o r.log)

visit_BoolOp(node, ctx) ==
    IF node.ops[1] = "And" THEN AllValues(node, ctx, 1, <<>>)
    ELSE IF node.ops[1] = "Or" THEN AnyValues(node, ctx, 1, <<>>)
    ELSE Raise("ValueError", <<>>)

visit_UnaryOp(node, ctx) ==
    LET r == visit(node.kids[1], ctx) IN
    IF r.exc # "" THEN r
    ELSE IF node.ops[1] = "Not" THEN Ret(PyBool(~Truthy(r.val)), r.log)
    ELSE IF node.ops[1] \in {"UAdd", "USub"}
         THEN IF IsNumber(r.val)
              THEN Ret(PyInt(IF node.ops[1] = "UAdd" THEN r.val.n ELSE -r.val.n), r.log)
              ELSE Raise("TypeError", r.log)
    ELSE Raise("ValueError", r.log)

\* a comparison loop that never advances `left`: every link compares the
\* first operand
CompareChainKeepLeft(node, ctx, k, left, log) ==
    IF k > Len(node.ops) THEN Ret(PyBool(TRUE), log)
    ELSE LET r == visit(node.kids[k + 1], ctx) IN
         IF r.exc # "" THEN Raise(r.exc, log \o r.log)
         ELSE LET c == CompareOp(node.ops[k], left, r.val) IN
              IF c.exc # "" THEN Raise(c.exc, log \o r.log)
              ELSE IF ~c.res THEN Ret(PyBool(FALSE), log \o r.log)
              ELSE CompareChainKeepLeft(node, ctx, k + 1, left, log \o r.log)

\* the loop of visit_Compare from the k-th operator on, `left` being the
\* value of the operand before it
CompareChain(node, ctx, k, left, log) ==
    IF k > Len(node.ops) THEN Ret(PyBool(TRUE), log)
    ELSE LET r == visit(node.kids[k + 1], ctx) IN
         IF r.exc # "" THEN Raise(r.exc, log \o r.log)
         ELSE LET c == CompareOp(node.ops[k], left, r.val) IN
              IF c.exc # "" THEN Raise(c.exc, log \o r.log)
              ELSE IF ~c.res THEN Ret(PyBool(FALSE), log \o r.log)
              ELSE CompareChain(node, ctx, k + 1, r.val, log \o r.log)

visit_Compare(node, ctx) ==
    LET l == visit(node.kids[1], ctx) IN
    IF l.exc # "" THEN l ELSE CompareChain(node, ctx, 1, l.val, l.log)

\* [self.visit(elem) for elem in node.elts], from the k-th element on
VisitElts(node, ctx, k, acc, log) ==
    IF k > Len(node.kids) THEN Ret(PyList(acc), log)
    ELSE LET r == visit(node.kids[k], ctx) IN
         IF r.exc # "" THEN Raise(r.exc, log \o r.log)
         ELSE VisitElts(node, ctx, k + 1, Append(acc, r.val), log \o r.log)

visit_List(node, ctx) == VisitElts(node, ctx, 1, <<>>, <<>>)

visit_Tuple(node, ctx) ==
    LET r == VisitElts(node, ctx, 1, <<>>, <<>>) IN
    IF r.exc # "" THEN r ELSE Ret(PyTuple(r.val.el), r.log)

\* ast.NodeVisitor.visit: dispatch on the node's class, generic_visit for a
\* class without a visit_ method
visit(node, ctx) ==
    CASE node.t = "BoolOp" -> visit_BoolOp(node, ctx)
      [] node.t = "UnaryOp" -> visit_UnaryOp(node, ctx)
      [] node.t = "Compare" -> visit_Compare(node, ctx)
      [] node.t = "Name" -> visit_Name(node, ctx)
      [] node.t = "Constant" -> visit_Constant(node)
      [] node.t = "List" -> visit_List(node, ctx)
      [] node.t = "Tuple" -> visit_Tuple(node, ctx)
      [] OTHER -> generic_visit(node)

\* the exceptions a visit raises; all derive from Exception
ExceptionClasses == {"SyntaxError", "ValueError", "TypeError", "NameError"}

\* except clauses for SyntaxError and ValueError only
CaughtNarrow(exc) == exc = "SyntaxError" \/ exc = "ValueError"

\* the except clauses of evaluate_condition: SyntaxError, ValueError, Exception
Caught(exc) == exc = "SyntaxError" \/ exc = "ValueError" \/ exc \in ExceptionClasses

\* tree = ast.parse(condition, mode='eval'); evaluator.visit(tree.body)
ParseAndVisit(p, ctx) == IF p.ok THEN visit(p.node, ctx) ELSE Raise("SyntaxError", <<>>)

\* bool(result) on a normal return, False from an except clause; an exception
\* no clause catches leaves evaluate_condition
Outcome(r, ctx) ==
    IF r.exc = "" THEN [result |-> Truthy(r.val), raised |-> "", log |-> r.log, context |-> ctx]
    ELSE IF Caught(r.exc) THEN [result |-> FALSE, raised |-> "", log |-> r.log, context |-> ctx]
    ELSE [result |-> FALSE, raised |-> r.exc, log |-> r.log, context |-> ctx]

\* evaluate_condition(condition, context): [result, raised, log, context]
evaluate_condition(cond, ctx) ==
    IF cond = <<>> \/ IsBlankText(cond)
    THEN [result |-> TRUE, raised |-> "", log |-> <<>>, context |-> ctx]
    ELSE Outcome(ParseAndVisit(ast_parse(cond), ctx), ctx)

(***************************************************************************)
(* build_condition_from_dict.  A structured condition is a record          *)
(* [keys, campo, valor, subs]: keys is the set of the dict's keys, campo   *)
(* the value of 'campo', valor the value of the operator key ('igual',     *)
(* 'no_igual', 'mayor', 'menor'), subs the sub-conditions of 'and', 'or'   *)
(* or 'not'.                                                               *)
(***************************************************************************)
CondDict(keys, campo, valor, subs) ==
    [keys |-> keys, campo |-> campo, valor |-> valor, subs |-> subs]

\* valor.replace("'", "\\'")
RECURSIVE EscapeQuotes(_)
EscapeQuotes(text) ==
    IF text = <<>> THEN <<>>
    ELSE (IF Head(text) = QUOTE THEN <<BSLASH, QUOTE>> ELSE <<Head(text)>>)
             \o EscapeQuotes(Tail(text))

\* f"{campo} {op} '{valor_escaped}'" for a str, f"{campo} {op} {valor}" otherwise
FormatQuoted(campo, op, valor) ==
    IF valor.ty = "str"
    THEN campo \o <<SPACE>> \o op \o <<SPACE, QUOTE>> \o EscapeQuotes(valor.s) \o <<QUOTE>>
    ELSE campo \o <<SPACE>> \o op \o <<SPACE>> \o PyStrOf(valor)

\* f"{campo} {op} {valor}"
FormatPlain(campo, op, valor) == campo \o <<SPACE>> \o op \o <<SPACE>> \o PyStrOf(valor)

TextTrue == <<"T", "r", "u", "e">>
TextFalse == <<"F", "a", "l", "s", "e">>

\* what build_condition_from_dict returns for a dict of no recognised shape
FallbackExpr == TextTrue

RECURSIVE build_condition_from_dict(_), BuildAll(_)
\* [build_condition_from_dict(c) for c in subs]
BuildAll(subs) ==
    IF subs = <<>> THEN <<>>
    ELSE <<build_condition_from_dict(Head(subs))>> \o BuildAll(Tail(subs))

build_condition_from_dict(d) ==
    IF {"campo", "igual"} \subseteq d.keys THEN FormatQuoted(d.campo, <<"=", "=">>, d.valor)
    ELSE IF {"campo", "no_igual"} \subseteq d.keys THEN FormatQuoted(d.campo, <<"!", "=">>, d.valor)
    ELSE IF {"campo", "mayor"} \subseteq d.keys THEN FormatPlain(d.campo, <<">">>, d.valor)
    ELSE IF {"campo", "menor"} \subseteq d.keys THEN FormatPlain(d.campo, <<"<">>, d.valor)
    ELSE IF "and" \in d.keys
         THEN <<"(">> \o Join(<<SPACE, "a", "n", "d", SPACE>>, BuildAll(d.subs)) \o <<")">>
    ELSE IF "or" \in d.keys
         THEN <<"(">> \o Join(<<SPACE, "o", "r", SPACE>>, BuildAll(d.subs)) \o <<")">>
    ELSE IF "not" \in d.keys
         THEN <<"(", "n", "o", "t", SPACE>> \o build_condition_from_dict(d.subs[1]) \o <<")">>
    ELSE FallbackExpr

(***************************************************************************)
(* Block resolution.  A rule is [cuando, plantilla], a block [id, reglas]; *)
(* an Optional[str] is [none, text].                                       *)
(***************************************************************************)
Rule(cuando, plantilla) == [cuando |-> cuando, plantilla |-> plantilla]
Block(id, reglas) == [id |-> id, reglas |-> reglas]
Some(text) == [none |-> FALSE, text |-> text]
NoneStr == [none |-> TRUE, text |-> <<>>]

\* a rule loop that keeps going after a match: the last matching rule wins
EvaluateRulesLast(reglas, ctx, k, evaluated) ==
    LET M == {j \in 1..Len(reglas) : evaluate_condition(reglas[j].cuando, ctx).result} IN
    [result |-> IF M = {} THEN NoneStr
                ELSE Some(reglas[CHOOSE j \in M : \A i \in M : i <= j].plantilla),
     evaluated |-> [j \in 1..Len(reglas) |-> j]]

\* the rule loop of evaluate_block from rule k on: [result, evaluated], evaluated
\* being the indexes of the rules whose condition was evaluated, in order
RECURSIVE EvaluateRules(_, _, _, _)
EvaluateRules(reglas, ctx, k, evaluated) ==
    IF k > Len(reglas) THEN [result |-> NoneStr, evaluated |-> evaluated]
    ELSE IF evaluate_condition(reglas[k].cuando, ctx).result
         THEN [result |-> Some(reglas[k].plantilla), evaluated |-> Append(evaluated, k)]
         ELSE EvaluateRules(reglas, ctx, k + 1, Append(evaluated, k))

evaluate_block(block, ctx) == EvaluateRules(block.reglas, ctx, 1, <<>>)

\* a block loop that leaves out the blocks no rule of which matches
RECURSIVE EvaluateBlocksOmitting(_, _, _, _)
EvaluateBlocksOmitting(blks, ctx, k, results) ==
    IF k > Len(blks) THEN results
    ELSE IF evaluate_block(blks[k], ctx).result.none
         THEN EvaluateBlocksOmitting(blks, ctx, k + 1, results)
    ELSE EvaluateBlocksOmitting(blks, ctx, k + 1,
             [id \in DOMAIN results \cup {blks[k].id} |->
                 IF id = blks[k].id THEN evaluate_block(blks[k], ctx).result.text
                 ELSE results[id]])

\* the loop of evaluate_all_blocks from block k on; results is the dict so far
RECURSIVE EvaluateBlocksFrom(_, _, _, _)
EvaluateBlocksFrom(blks, ctx, k, results) ==
    IF k > Len(blks) THEN results
    ELSE LET plantilla == evaluate_block(blks[k], ctx).result
             text == IF ~plantilla.none THEN plantilla.text ELSE <<>>
         IN  EvaluateBlocksFrom(blks, ctx, k + 1,
                 [id \in DOMAIN results \cup {blks[k].id} |->
                     IF id = blks[k].id THEN text ELSE results[id]])

evaluate_all_blocks(blks, ctx) == EvaluateBlocksFrom(blks, ctx, 1, [id \in {} |-> <<>>])

\* str.strip()
RECURSIVE LStrip(_), RStrip(_)
LStrip(text) == IF text # <<>> /\ Head(text) = SPACE THEN LStrip(Tail(text)) ELSE text
RStrip(text) ==
    IF text # <<>> /\ text[Len(text)] = SPACE THEN RStrip(SubSeq(text, 1, Len(text) - 1))
    ELSE text
Strip(text) == LStrip(RStrip(text))

\* text.replace(pat, rep), pat non-empty
RECURSIVE ReplaceAll(_, _, _)
ReplaceAll(text, pat, rep) ==
    IF text = <<>> THEN <<>>
    ELSE IF StartsWithAt(text, pat, 1)
         THEN rep \o ReplaceAll(SubSeq(text, Len(pat) + 1, Len(text)), pat, rep)
         ELSE <<Head(text)>> \o ReplaceAll(Tail(text), pat, rep)

TagOpen == <<"{", "{">>
TagClose == <<"}", "}">>
Tag(name) == TagOpen \o name \o TagClose

\* the variable names templates refer to
TemplateNames ==
    {<<"x">>, <<"y">>, <<"a", "b">>, <<"c", "d">>,
     <<"_", "u", "s", "e", "_", "x", "m", "l", "_", "e", "n", "g", "i", "n", "e">>}

\* jinja_env.from_string(plantilla).render(**contexto): every {{name}} becomes
\* str(value) for a context name and nothing for an undefined one; a tag left
\* open is a TemplateSyntaxError.  names are the names still to expand.
RECURSIVE JinjaExpand(_, _, _)
JinjaExpand(text, ctx, names) ==
    IF names = <<>> THEN text
    ELSE JinjaExpand(ReplaceAll(text, Tag(Head(names)),
                                IF Head(names) \in DOMAIN ctx THEN PyStrOf(ctx[Head(names)])
                                ELSE <<>>),
                     ctx, Tail(names))

RECURSIVE SetToSeq(_)
SetToSeq(S) == IF S = {} THEN <<>> ELSE LET x == CHOOSE x \in S : TRUE IN <<x>> \o SetToSeq(S \ {x})

jinja_render(plantilla, ctx) ==
    LET out == JinjaExpand(plantilla, ctx, SetToSeq(TemplateNames \cup DOMAIN ctx)) IN
    [ok |-> ~Contains(out, TagOpen), text |-> out]

\* BloquesTextoProcessor._renderizar_plantilla
renderizar_plantilla(plantilla, ctx) ==
    LET r == jinja_render(plantilla, ctx) IN IF r.ok THEN Strip(r.text) ELSE <<>>

\* the rule loop of procesar_bloque from rule k on: [result, evaluated]
RECURSIVE ProcesarReglas(_, _, _, _)
ProcesarReglas(reglas, ctx, k, evaluated) ==
    IF k > Len(reglas) THEN [result |-> <<>>, evaluated |-> evaluated]
    ELSE IF evaluate_condition(reglas[k].cuando, ctx).result
         THEN [result |-> renderizar_plantilla(reglas[k].plantilla, ctx),
               evaluated |-> Append(evaluated, k)]
         ELSE ProcesarReglas(reglas, ctx, k + 1, Append(evaluated, k))

procesar_bloque(bloque, ctx) == ProcesarReglas(bloque.reglas, ctx, 1, <<>>)

\* the loop of procesar_todos from block k on; a block whose id is missing or
\* empty ("") is skipped
RECURSIVE ProcesarDesde(_, _, _, _)
ProcesarDesde(blks, ctx, k, resultados) ==
    IF k > Len(blks) THEN resultados
    ELSE IF blks[k].id = "" THEN ProcesarDesde(blks, ctx, k + 1, resultados)
    ELSE LET text == procesar_bloque(blks[k], ctx).result IN
         ProcesarDesde(blks, ctx, k + 1,
             [id \in DOMAIN resultados \cup {blks[k].id} |->
                 IF id = blks[k].id THEN text ELSE resultados[id]])

procesar_todos(blks, ctx) == ProcesarDesde(blks, ctx, 1, [id \in {} |-> <<>>])

(***************************************************************************)
(* OOXML document.  A paragraph is [texts]: its w:t text nodes in document *)
(* order, each [text, preserve] (preserve: xml:space="preserve" is set).   *)
(***************************************************************************)
TextNode(text, preserve) == [text |-> text, preserve |-> preserve]
Paragraph(texts) == [texts |-> texts]

\* XMLWordEngineAdapter._get_paragraph_text
RECURSIVE get_paragraph_text(_)
get_paragraph_text(para) ==
    IF para.texts = <<>> THEN <<>>
    ELSE Head(para.texts).text \o get_paragraph_text(Paragraph(Tail(para.texts)))

\* XMLWordEngineAdapter._set_text_with_preserve
set_text_with_preserve(text_elem, new_text) ==
    LET needs_preserve ==
            \/ new_text # <<>> /\ Head(new_text) = SPACE
            \/ new_text # <<>> /\ new_text[Len(new_text)] = SPACE
            \/ \E i \in 1..Len(new_text) : new_text[i] \in {"\n", "\t"}
    IN  [text_elem EXCEPT !.text = new_text, !.preserve = needs_preserve]

\* the 0-based offset where text node k of the paragraph starts
RECURSIVE NodeStart(_, _)
NodeStart(para, k) == IF k = 1 THEN 0 ELSE NodeStart(para, k - 1) + Len(para.texts[k - 1].text)

\* a node loop that leaves the node in which the marker ends as it is
ReplaceInNodeKeepingTail(text_elem, start, end_, marker_start, marker_end, value) ==
    IF end_ <= marker_start \/ start >= marker_end \/ ~(start <= marker_start)
    THEN [node |-> text_elem, inserted |-> FALSE]
    ELSE [node |-> set_text_with_preserve(text_elem,
                       SubSeq(text_elem.text, 1, marker_start - start) \o value
                       \o (IF marker_end < end_
                           THEN SubSeq(text_elem.text, marker_end - start + 1, Len(text_elem.text))
                           ELSE <<>>)),
          inserted |-> TRUE]

\* what the node loop of _replace_marker_in_paragraph_xml does to one text
\* node spanning [start, end_) for a marker at [marker_start, marker_end):
\* [node, inserted]
ReplaceInNode(text_elem, start, end_, marker_start, marker_end, value) ==
    LET text == text_elem.text
        before == IF start < marker_start /\ marker_start < end_
                  THEN SubSeq(text, 1, marker_start - start) ELSE <<>>
        after == IF start < marker_end /\ marker_end < end_
                 THEN SubSeq(text, marker_end - start + 1, Len(text)) ELSE <<>>
    IN  IF end_ <= marker_start \/ start >= marker_end
        THEN [node |-> text_elem, inserted |-> FALSE]
        ELSE IF start <= marker_start /\ end_ >= marker_end
        THEN [node |-> set_text_with_preserve(text_elem, before \o value \o after),
              inserted |-> TRUE]
        ELSE IF start <= marker_start /\ marker_start < end_
        THEN [node |-> set_text_with_preserve(text_elem, before \o value), inserted |-> TRUE]
        ELSE IF start < marker_end /\ marker_end <= end_
        THEN [node |-> set_text_with_preserve(text_elem, after), inserted |-> FALSE]
        ELSE [node |-> set_text_with_preserve(text_elem, <<>>), inserted |-> FALSE]

\* XMLWordEngineAdapter._replace_marker_in_paragraph_xml: one replacement of
\* the first occurrence of marker
replace_marker_in_paragraph_xml(para, marker, value) ==
    LET full_text == get_paragraph_text(para) IN
    IF para.texts = <<>> \/ ~Contains(full_text, marker) THEN para
    ELSE LET marker_start == IndexOf(full_text, marker) - 1
             marker_end == marker_start + Len(marker)
             res == [k \in 1..Len(para.texts) |->
                        ReplaceInNode(para.texts[k], NodeStart(para, k),
                                      NodeStart(para, k) + Len(para.texts[k].text),
                                      marker_start, marker_end, value)]
             inserted == \E k \in 1..Len(para.texts) : res[k].inserted
             After == {k \in 1..Len(para.texts) :
                          NodeStart(para, k) + Len(para.texts[k].text) > marker_start}
             first == IF After = {} THEN 0 ELSE CHOOSE k \in After : \A j \in After : k <= j
         IN  [para EXCEPT !.texts =
                 [k \in 1..Len(para.texts) |->
                     IF ~inserted /\ k = first
                     THEN set_text_with_preserve(res[k].node, res[k].node.text \o value)
                     ELSE res[k].node]]

(***************************************************************************)
(* Specification SpecCond: evaluate_condition on expression strings over   *)
(* the names a, b, c (and v, which no context defines).                    *)
(***************************************************************************)
\* integers a context binds a name to: 1..MaxInt
MaxInt == 2

CompOps == {"Eq", "NotEq", "Lt", "LtE", "Gt", "GtE", "In", "NotIn", "Is", "IsNot"}

\* the source text of a comparison operator, with the spaces around it
OpText(op) ==
      CASE op = "Eq" -> <<" ", "=", "=", " ">>
        [] op = "NotEq" -> <<" ", "!", "=", " ">>
        [] op = "Lt" -> <<" ", "<", " ">>
        [] op = "LtE" -> <<" ", "<", "=", " ">>
        [] op = "Gt" -> <<" ", ">", " ">>
        [] op = "GtE" -> <<" ", ">", "=", " ">>
        [] op = "In" -> <<" ", "i", "n", " ">>
        [] op = "NotIn" -> <<" ", "n", "o", "t", " ", "i", "n", " ">>
        [] op = "Is" -> <<" ", "i", "s", " ">>
        [] op = "IsNot" -> <<" ", "i", "s", " ", "n", "o", "t", " ">>

NameA == <<"a">>
NameB == <<"b">>
NameC == <<"c">>
NameV == <<"v">>

\* "a op b", "a op1 b op2 c" and "(a op1 b) and (b op2 c)"
PairText(left, op, right) == left \o OpText(op) \o right
ChainText(op1, op2) == NameA \o OpText(op1) \o NameB \o OpText(op2) \o NameC
AndText(op1, op2) ==
    <<"(">> \o PairText(NameA, op1, NameB) \o <<")", " ", "a", "n", "d", " ", "(">>
        \o PairText(NameB, op2, NameC) \o <<")">>

ChainConditions == {ChainText(op1, op2) : op1 \in CompOps, op2 \in CompOps}
PairConditions == {PairText(NameA, op, NameB) : op \in CompOps}

\* expressions that hold a call, an attribute access or binary arithmetic
DisallowedConditions ==
    {
    <<"f", "(", ")">>, <<"n", "o", "t", " ", "f", "(", ")">>, <<"f", "(", ")", " ", "=", "=", " ", "1">>,
    <<"1", " ", "=", "=", " ", "f", "(", ")">>, <<"a", " ", "a", "n", "d", " ", "f", "(", ")">>, <<"f", "(", ")", " ", "a", "n", "d", " ", "a">>,
    <<"a", " ", "o", "r", " ", "f", "(", ")">>, <<"f", "(", ")", " ", "o", "r", " ", "a">>, <<"[", "f", "(", ")", "]", " ", "=", "=", " ", "b">>,
    <<"a", " ", "<", " ", "b", " ", "<", " ", "f", "(", ")">>, <<"(", "f", "(", ")", ")">>, <<"a", " ", "i", "n", " ", "[", "b", ",", " ", "f", "(", ")", "]">>,
    <<"b", " ", "=", "=", " ", "1", " ", "o", "r", " ", "f", "(", ")", " ", "=", "=", " ", "2">>, <<"-", "f", "(", ")">>, <<"a", ".", "b">>,
    <<"n", "o", "t", " ", "a", ".", "b">>, <<"a", ".", "b", " ", "=", "=", " ", "1">>, <<"1", " ", "=", "=", " ", "a", ".", "b">>,
    <<"a", " ", "a", "n", "d", " ", "a", ".", "b">>, <<"a", ".", "b", " ", "a", "n", "d", " ", "a">>, <<"a", " ", "o", "r", " ", "a", ".", "b">>,
    <<"a", ".", "b", " ", "o", "r", " ", "a">>, <<"[", "a", ".", "b", "]", " ", "=", "=", " ", "b">>, <<"a", " ", "<", " ", "b", " ", "<", " ", "a", ".", "b">>,
    <<"(", "a", ".", "b", ")">>, <<"a", " ", "i", "n", " ", "[", "b", ",", " ", "a", ".", "b", "]">>, <<"b", " ", "=", "=", " ", "1", " ", "o", "r", " ", "a", ".", "b", " ", "=", "=", " ", "2">>,
    <<"-", "a", ".", "b">>, <<"a", " ", "+", " ", "1">>, <<"n", "o", "t", " ", "a", " ", "+", " ", "1">>,
    <<"a", " ", "+", " ", "1", " ", "=", "=", " ", "1">>, <<"1", " ", "=", "=", " ", "a", " ", "+", " ", "1">>, <<"a", " ", "a", "n", "d", " ", "a", " ", "+", " ", "1">>,
    <<"a", " ", "+", " ", "1", " ", "a", "n", "d", " ", "a">>, <<"a", " ", "o", "r", " ", "a", " ", "+", " ", "1">>, <<"a", " ", "+", " ", "1", " ", "o", "r", " ", "a">>,
    <<"[", "a", " ", "+", " ", "1", "]", " ", "=", "=", " ", "b">>, <<"a", " ", "<", " ", "b", " ", "<", " ", "a", " ", "+", " ", "1">>, <<"(", "a", " ", "+", " ", "1", ")">>,
    <<"a", " ", "i", "n", " ", "[", "b", ",", " ", "a", " ", "+", " ", "1", "]">>, <<"b", " ", "=", "=", " ", "1", " ", "o", "r", " ", "a", " ", "+", " ", "1", " ", "=", "=", " ", "2">>, <<"-", "a", " ", "+", " ", "1">>,
    <<"a", ".", "f", "(", "b", ")">>, <<"n", "o", "t", " ", "a", ".", "f", "(", "b", ")">>, <<"a", ".", "f", "(", "b", ")", " ", "=", "=", " ", "1">>,
    <<"1", " ", "=", "=", " ", "a", ".", "f", "(", "b", ")">>, <<"a", " ", "a", "n", "d", " ", "a", ".", "f", "(", "b", ")">>, <<"a", ".", "f", "(", "b", ")", " ", "a", "n", "d", " ", "a">>,
    <<"a", " ", "o", "r", " ", "a", ".", "f", "(", "b", ")">>, <<"a", ".", "f", "(", "b", ")", " ", "o", "r", " ", "a">>, <<"[", "a", ".", "f", "(", "b", ")", "]", " ", "=", "=", " ", "b">>,
    <<"a", " ", "<", " ", "b", " ", "<", " ", "a", ".", "f", "(", "b", ")">>, <<"(", "a", ".", "f", "(", "b", ")", ")">>, <<"a", " ", "i", "n", " ", "[", "b", ",", " ", "a", ".", "f", "(", "b", ")", "]">>,
    <<"b", " ", "=", "=", " ", "1", " ", "o", "r", " ", "a", ".", "f", "(", "b", ")", " ", "=", "=", " ", "2">>, <<"-", "a", ".", "f", "(", "b", ")">>
    }

\* expressions of the supported grammar, some of which raise when evaluated
SupportedConditions ==
    {
    <<"1", " ", "<", " ", "2", " ", "<", " ", "3">>, <<"1", " ", "<", " ", "3", " ", "<", " ", "2">>, <<"v", " ", "=", "=", " ", "N", "o", "n", "e">>,
    <<"v", " ", "i", "s", " ", "N", "o", "n", "e">>, <<"v", " ", "=", "=", " ", "'", "a", "'">>, <<"v", " ", "!", "=", " ", "N", "o", "n", "e">>,
    <<"v", " ", "i", "s", " ", "n", "o", "t", " ", "N", "o", "n", "e">>, <<"n", "o", "t", " ", "v">>, <<"v">>,
    <<"a">>, <<"n", "o", "t", " ", "a">>, <<"a", " ", "a", "n", "d", " ", "b">>,
    <<"a", " ", "o", "r", " ", "b">>, <<"a", " ", "a", "n", "d", " ", "b", " ", "o", "r", " ", "c">>, <<"a", " ", "=", "=", " ", "1", " ", "a", "n", "d", " ", "b", " ", "=", "=", " ", "2">>,
    <<"n", "o", "t", " ", "(", "a", " ", "=", "=", " ", "1", " ", "o", "r", " ", "b", " ", "=", "=", " ", "'", "a", "'", ")">>, <<"1", " ", "<", " ", "'", "a", "'">>, <<"a", " ", "<", " ", "'", "a", "'">>,
    <<"-", "a", " ", "=", "=", " ", "1">>, <<"+", "a", " ", "=", "=", " ", "-", "b">>, <<"a", " ", "i", "n", " ", "1">>,
    <<"a", " ", "i", "n", " ", "[", "1", ",", " ", "'", "a", "'", "]">>, <<"'", "a", "'", " ", "i", "n", " ", "a">>, <<"a", " ", "=", "=", " ", "[", "1", "]">>,
    <<"[", "a", ",", " ", "b", "]", " ", "=", "=", " ", "[", "1", ",", " ", "2", "]">>, <<"(", "a", ",", " ", "b", ")", " ", "=", "=", " ", "(", "1", ",", " ", "2", ")">>, <<"a", " ", "=", "=", " ", "T", "r", "u", "e">>,
    <<"a", " ", "<", " ", "v">>, <<"v", " ", "<", " ", "1", " ", "o", "r", " ", "a", " ", "=", "=", " ", "1">>, <<"a", " ", "=", "=", " ", "1", " ", "o", "r", " ", "v", " ", "<", " ", "1">>,
    <<"[", "]", " ", "=", "=", " ", "a">>, <<"(", ")">>
    }

\* strings ast.parse rejects
UnparsableConditions ==
    {
    <<"a", " ", "=", "=">>, <<"a", " ", "=", " ", "1">>, <<"i", "m", "p", "o", "r", "t", " ", "a">>,
    <<"(", "a">>, <<"a", ")">>, <<"'", "a">>,
    <<" ", "a", " ", "=", "=", " ", "1">>, <<"a", " ", "=", "=", " ", "1", " ", "a", "n", "d">>, <<"1", "a">>,
    <<"a", " ", "=", "=", " ", "'", "\\", "'">>, <<"a", " ", "b">>, <<"a", " ", "!">>
    }

\* empty and whitespace-only strings
BlankConditions ==
    {
    <<>>, <<" ">>, <<" ", " ">>
    }

Conditions ==
    ChainConditions \cup PairConditions \cup DisallowedConditions \cup SupportedConditions
        \cup UnparsableConditions \cup BlankConditions

\* the values a context binds a name to
ContextValues ==
    {PyInt(i) : i \in 1..MaxInt} \cup {PyStr(<<"a">>), PyNone}

\* a context binds each of a, b, c to a value or leaves it undefined
MakeContext(va, vb, vc) ==
    [n \in {x \in {NameA, NameB, NameC} :
                (x = NameA => va # <<>>) /\ (x = NameB => vb # <<>>) /\ (x = NameC => vc # <<>>)}
        |-> IF n = NameA THEN va[1] ELSE IF n = NameB THEN vb[1] ELSE vc[1]]

Bindings == {<<>>} \cup {<<v>> : v \in ContextValues}
Contexts == {MakeContext(va, vb, vc) : va \in Bindings, vb \in Bindings, vc \in Bindings}

EmptyDict == CondDict({}, <<>>, PyNone, <<>>)

CondIdle ==
    /\ condition = <<>>
    /\ cond_pc = "idle"
    /\ cond_result = FALSE
    /\ cond_raised = ""
    /\ cond_log = <<>>
    /\ context_after = [n \in {} |-> PyNone]

BlocksIdle ==
    /\ blocks = <<>>
    /\ blk_pc = "idle"
    /\ blk_op = ""
    /\ blk_arg = 0
    /\ blk_result = NoneStr
    /\ blk_map = [id \in {} |-> <<>>]
    /\ blk_evaluated = <<>>

BuildIdle ==
    /\ cond_dict = EmptyDict
    /\ bld_pc = "idle"
    /\ bld_expr = <<>>

DocIdle ==
    /\ paragraphs = <<>>
    /\ render_ctx = <<>>
    /\ engine_kind = ""
    /\ ctx_filtered = <<>>
    /\ rv_pc = "idle"
    /\ rv_para = 0
    /\ rv_key = 0
    /\ rv_replaced = <<>>

EngineIdle ==
    /\ root = <<>>
    /\ root_before = <<>>
    /\ eng_op = ""
    /\ eng_arg = <<>>
    /\ eng_steps = 0
    /\ initial_drawings = 0
    /\ initial_sections = 0
    /\ eng_raised = ""

RenderIdle ==
    /\ rnd_pc = "idle"
    /\ rnd_env = <<>>
    /\ rnd_trace = <<>>
    /\ rnd_result = ""
    /\ rnd_output = "absent"

TablesIdle ==
    /\ tab_pc = "idle"
    /\ tab_def = <<>>
    /\ tab_data = <<>>
    /\ tab_result = <<>>
    /\ ov_cfg = <<>>
    /\ ov_rows = <<>>
    /\ ov_result = <<>>

LogicIdle ==
    /\ lgc_pc = "idle"
    /\ lgc_op = ""
    /\ lgc_text = <<>>
    /\ lgc_n = 0
    /\ lgc_result = <<>>
    /\ data_in = <<>>
    /\ bloques_texto = <<>>
    /\ lgc_context = <<>>

TempIdle ==
    /\ tmp_pc = <<>>
    /\ tmp_dirs = {}
    /\ tmp_owner = <<>>
    /\ tmp_created = {}
    /\ tmp_env = <<>>

InitCond ==
    /\ condition \in Conditions
    /\ context \in Contexts
    /\ cond_pc = "ready"
    /\ cond_result = FALSE
    /\ cond_raised = ""
    /\ cond_log = <<>>
    /\ context_after = [n \in {} |-> PyNone]
    /\ BlocksIdle /\ BuildIdle /\ DocIdle
    /\ EngineIdle /\ RenderIdle /\ TablesIdle /\ LogicIdle /\ TempIdle

\* a call evaluate_condition(condition, context)
Evaluate ==
    /\ cond_pc = "ready"
    /\ LET r == evaluate_condition(condition, context) IN
        /\ cond_result' = r.result
        /\ cond_raised' = r.raised
        /\ cond_log' = r.log
        /\ context_after' = r.context
    /\ cond_pc' = "done"
    /\ UNCHANGED <<eng_vars, rnd_vars, tab_vars, lgc_vars, tmp_vars, condition, context, blk_vars, bld_vars, doc_vars>>

NextCond == Evaluate

SpecCond == InitCond /\ [][NextCond]_vars

\* ---- properties of evaluate_condition
AllNames == {NameA, NameB, NameC, NameV}

\* the context with every name it leaves undefined bound to None
WithNone(ctx) == [n \in AllNames |-> IF n \in DOMAIN ctx THEN ctx[n] ELSE PyNone]

VEqNone == <<"v", " ", "=", "=", " ", "N", "o", "n", "e">>
VIsNone == <<"v", " ", "i", "s", " ", "N", "o", "n", "e">>
VEqA == <<"v", " ", "=", "=", " ", "'", "a", "'">>
Chain123 == <<"1", " ", "<", " ", "2", " ", "<", " ", "3">>
Chain132 == <<"1", " ", "<", " ", "3", " ", "<", " ", "2">>
IntLtStr == <<"1", " ", "<", " ", "'", "a", "'">>

\* C3: an expression that holds a call, an attribute access or binary
\* arithmetic anywhere evaluates to False in every context, and nothing is
\* raised.
C3_DisallowedIsFalse ==
    cond_pc = "done" /\ condition \in DisallowedConditions
        => cond_result = FALSE /\ cond_raised = ""

\* C4: evaluate_condition never raises; a blank string gives True; a string
\* that does not parse, or whose evaluation raises, gives False; the context
\* is what it was.
C4_Total ==
    cond_pc = "done" =>
        /\ cond_raised = ""
        /\ cond_result \in BOOLEAN
        /\ (condition \in BlankConditions => cond_result = TRUE)
        /\ (condition \notin BlankConditions /\ ~ast_parse(condition).ok => cond_result = FALSE)
        /\ (condition \notin BlankConditions /\ ast_parse(condition).ok
                /\ visit(ast_parse(condition).node, context).exc # "" => cond_result = FALSE)
        /\ context_after = context

\* an ordering comparison of an int with a str has been evaluated
C4_Witness ==
    /\ cond_pc = "done"
    /\ condition = IntLtStr
    /\ visit(ast_parse(condition).node, context).exc = "TypeError"
    /\ cond_result = FALSE
    /\ cond_raised = ""

\* C5: a name the context does not define evaluates to None: the result is
\* the one the context with those names bound to None gives, nothing is
\* raised, 'v == None' and 'v is None' are true and "v == 'a'" is false.
C5_UndefinedIsNone ==
    cond_pc = "done" =>
        /\ cond_raised = ""
        /\ cond_result = evaluate_condition(condition, WithNone(context)).result
        /\ (condition \in {VEqNone, VIsNone} => cond_result = TRUE)
        /\ (condition = VEqA => cond_result = FALSE)

\* 'v is None' has been evaluated in a context that defines neither v nor a
C5_Witness ==
    /\ cond_pc = "done"
    /\ condition = VIsNone
    /\ NameV \notin DOMAIN context
    /\ NameA \notin DOMAIN context
    /\ cond_log = <<NameV>>
    /\ cond_result = TRUE

\* C6: 'a op1 b op2 c' evaluates to what '(a op1 b) and (b op2 c)' evaluates
\* to; when 'a op1 b' is not true, c is not evaluated; '1 < 2 < 3' is true
\* and '1 < 3 < 2' is false.
C6_ChainIsConjunction ==
    cond_pc = "done" =>
        /\ \A op1 \in CompOps, op2 \in CompOps :
              condition = ChainText(op1, op2) =>
                  /\ cond_result = evaluate_condition(AndText(op1, op2), context).result
                  /\ ~evaluate_condition(PairText(NameA, op1, NameB), context).result
                         => cond_log = <<NameA, NameB>>
        /\ (condition = Chain123 => cond_result = TRUE)
        /\ (condition = Chain132 => cond_result = FALSE)

\* 'a < b < c' has been evaluated with a < b true and b < c false
C6_Witness ==
    /\ cond_pc = "done"
    /\ condition = ChainText("Lt", "Lt")
    /\ context = MakeContext(<<PyInt(1)>>, <<PyInt(2)>>, <<PyInt(1)>>)
    /\ cond_log = <<NameA, NameB, NameC>>
    /\ cond_result = FALSE

(***************************************************************************)
(* Specification SpecBuild: build_condition_from_dict on a structured      *)
(* condition over the fields x and y, then evaluate_condition on the       *)
(* expression it returned.                                                 *)
(***************************************************************************)
\* string values of a leaf have at most MaxValueLen characters
MaxValueLen == 2

NameX == <<"x">>
NameY == <<"y">>
ValueAlphabet == {"z", QUOTE, BSLASH}

StrValues == UNION {[1..k -> ValueAlphabet] : k \in 0..MaxValueLen}
IntValues == {PyInt(i) : i \in 1..MaxInt}

Leaf(campo, op, valor) == CondDict({"campo", op}, campo, valor, <<>>)
Composite(key, subs) == CondDict({key}, <<>>, PyNone, subs)

\* every leaf over x: equality and inequality against every string and
\* integer value, ordering against every integer
LeavesX ==
    {Leaf(NameX, op, v) : op \in {"igual", "no_igual"},
                          v \in {PyStr(s) : s \in StrValues} \cup IntValues}
        \cup {Leaf(NameX, op, v) : op \in {"mayor", "menor"}, v \in IntValues}

\* the leaves the composite conditions are made of
SubLeaves ==
    {Leaf(NameX, "igual", PyStr(<<"z">>)), Leaf(NameX, "no_igual", PyInt(1)),
     Leaf(NameY, "mayor", PyInt(1)), Leaf(NameY, "igual", PyStr(<<QUOTE>>))}

Negations == {Composite("not", <<d>>) : d \in SubLeaves}
SubConditions == SubLeaves \cup {Composite("not", <<Leaf(NameY, "menor", PyInt(2))>>)}

Junctions ==
    {Composite(key, subs) : key \in {"and", "or"},
                            subs \in UNION {[1..k -> SubConditions] : k \in 1..2}}
        \cup {Composite("not", <<Composite("or", <<d, e>>)>>) :
                 d \in SubLeaves, e \in SubLeaves}

\* dicts of no recognised shape: empty, 'campo' with an unknown operator key,
\* unknown keys only, 'campo' alone, an operator key without 'campo'
UnrecognisedDicts ==
    {EmptyDict, CondDict({"campo", "entre"}, NameX, PyInt(1), <<>>),
     CondDict({"foo"}, <<>>, PyNone, <<>>), CondDict({"campo"}, NameX, PyNone, <<>>),
     CondDict({"igual"}, <<>>, PyInt(1), <<>>)}

\* recognised at the top, with a sub-condition of no recognised shape
MixedDicts ==
    {Composite(key, <<d, e>>) : key \in {"and", "or"}, d \in UnrecognisedDicts,
                                e \in SubLeaves}

CondDicts == LeavesX \cup Negations \cup Junctions \cup UnrecognisedDicts \cup MixedDicts

BuildContexts ==
    {[n \in {k \in {NameX, NameY} : (k = NameX => vx # <<>>) /\ (k = NameY => vy # <<>>)}
        |-> IF n = NameX THEN vx[1] ELSE vy[1]] :
     vx \in {<<>>} \cup {<<v>> : v \in IntValues
                                    \cup {PyStr(<<"z">>), PyStr(<<BSLASH>>), PyStr(<<QUOTE>>)}},
     vy \in {<<>>} \cup {<<v>> : v \in IntValues \cup {PyStr(<<QUOTE>>)}}}

InitBuild ==
    /\ cond_dict \in CondDicts
    /\ context \in BuildContexts
    /\ bld_pc = "ready"
    /\ bld_expr = <<>>
    /\ CondIdle /\ BlocksIdle /\ DocIdle
    /\ EngineIdle /\ RenderIdle /\ TablesIdle /\ LogicIdle /\ TempIdle

\* a call build_condition_from_dict(cond_dict)
Build ==
    /\ bld_pc = "ready"
    /\ bld_expr' = build_condition_from_dict(cond_dict)
    /\ bld_pc' = "built"
    /\ UNCHANGED <<eng_vars, rnd_vars, tab_vars, lgc_vars, tmp_vars, cond_dict, cond_vars, blk_vars, doc_vars>>

\* a call evaluate_condition(bld_expr, context)
EvaluateBuilt ==
    /\ bld_pc = "built"
    /\ condition' = bld_expr
    /\ LET r == evaluate_condition(bld_expr, context) IN
        /\ cond_result' = r.result
        /\ cond_raised' = r.raised
        /\ cond_log' = r.log
        /\ context_after' = r.context
    /\ cond_pc' = "done"
    /\ bld_pc' = "done"
    /\ UNCHANGED <<eng_vars, rnd_vars, tab_vars, lgc_vars, tmp_vars, context, cond_dict, bld_expr, blk_vars, doc_vars>>

NextBuild == Build \/ EvaluateBuilt

SpecBuild == InitBuild /\ [][NextBuild]_vars

\* ---- properties of the builder
OperatorKeys == {"igual", "no_igual", "mayor", "menor"}

\* the dict has one of the shapes build_condition_from_dict documents
Recognised(d) ==
    \/ "campo" \in d.keys /\ d.keys \cap OperatorKeys # {}
    \/ d.keys \cap {"and", "or", "not"} # {}

RECURSIVE WellFormed(_)
\* the dict and all its sub-conditions are leaves, and/or over one or more
\* sub-conditions, or not
WellFormed(d) ==
    \/ d.keys \in {{"campo", op} : op \in OperatorKeys}
    \/ /\ d.keys \in {{"and"}, {"or"}}
       /\ d.subs # <<>>
       /\ \A k \in 1..Len(d.subs) : WellFormed(d.subs[k])
    \/ d.keys = {"not"} /\ Len(d.subs) = 1 /\ WellFormed(d.subs[1])

\* the comparison a leaf denotes: ctx.get(campo) against the value
LeafMeaning(d, ctx) ==
    CompareOp(CASE "igual" \in d.keys -> "Eq"
                [] "no_igual" \in d.keys -> "NotEq"
                [] "mayor" \in d.keys -> "Gt"
                [] OTHER -> "Lt",
              IF d.campo \in DOMAIN ctx THEN ctx[d.campo] ELSE PyNone, d.valor)

RECURSIVE MeaningOf(_, _), MeaningAll(_, _, _), MeaningAny(_, _, _)
\* the direct meaning of a well-formed dict, [exc, res]: comparison of the
\* field's value against the leaf's value, conjunction and disjunction from
\* left to right (stopping at the first sub-condition that decides),
\* negation; a comparison Python does not define makes the whole undefined
MeaningAll(subs, ctx, k) ==
    IF k > Len(subs) THEN [exc |-> "", res |-> TRUE]
    ELSE LET m == MeaningOf(subs[k], ctx) IN
         IF m.exc # "" \/ ~m.res THEN m ELSE MeaningAll(subs, ctx, k + 1)

MeaningAny(subs, ctx, k) ==
    IF k > Len(subs) THEN [exc |-> "", res |-> FALSE]
    ELSE LET m == MeaningOf(subs[k], ctx) IN
         IF m.exc # "" \/ m.res THEN m ELSE MeaningAny(subs, ctx, k + 1)

NegationOf(m) == IF m.exc # "" THEN m ELSE [exc |-> "", res |-> ~m.res]

MeaningOf(d, ctx) ==
    IF "campo" \in d.keys THEN LeafMeaning(d, ctx)
    ELSE IF "and" \in d.keys THEN MeaningAll(d.subs, ctx, 1)
    ELSE IF "or" \in d.keys THEN MeaningAny(d.subs, ctx, 1)
    ELSE NegationOf(MeaningOf(d.subs[1], ctx))

\* the boolean a well-formed dict means in a context (false when undefined)
Meaning(d, ctx) == MeaningOf(d, ctx).exc = "" /\ MeaningOf(d, ctx).res

\* C7: for every well-formed structured condition and every context, the
\* built expression evaluates to the direct meaning of the condition, for
\* every string value (quotes and backslashes included).
C7_BuilderPreservesMeaning ==
    bld_pc = "done" /\ WellFormed(cond_dict) => cond_result = Meaning(cond_dict, context)

\* C8: a dict of no recognised shape builds 'True', which evaluates true; a
\* dict of a recognised shape does not build the fallback; a built
\* expression that cannot be evaluated evaluates false.
C8_FailOpenOnStructure ==
    bld_pc = "done" =>
        /\ (~Recognised(cond_dict) => bld_expr = TextTrue /\ cond_result = TRUE)
        /\ (Recognised(cond_dict) => bld_expr # TextTrue)
        /\ (~ast_parse(bld_expr).ok => cond_result = FALSE)
        /\ cond_raised = ""

\* a dict with 'campo' and an unknown operator key has been built and evaluated
C8_Witness ==
    /\ bld_pc = "done"
    /\ cond_dict.keys = {"campo", "entre"}
    /\ bld_expr = TextTrue
    /\ cond_result = TRUE

\* an expression that does not parse has been built and evaluated
C8_WitnessUnevaluable ==
    /\ bld_pc = "done"
    /\ Recognised(cond_dict)
    /\ ~ast_parse(bld_expr).ok
    /\ cond_result = FALSE

(***************************************************************************)
(* Specification SpecBlocks: block resolution.  One of evaluate_block,     *)
(* procesar_bloque, evaluate_all_blocks, procesar_todos runs on the        *)
(* declared blocks and a context.                                          *)
(***************************************************************************)
\* a block has at most MaxRules rules; at most MaxBlocks blocks are declared
MaxRules == 2
MaxBlocks == 2

CondXEq1 == <<"x", " ", "=", "=", " ", "1">>
CondXEq2 == <<"x", " ", "=", "=", " ", "2">>
RuleConditions == {CondXEq1, CondXEq2, TextTrue}

\* the template of the j-th rule of a block: every rule of a block has a
\* template of its own
TemplateOf(j) ==
    CASE j = 1 -> <<" ", "t", "1", " ">>
      [] j = 2 -> <<"{", "{", "x", "}", "}">>
      [] OTHER -> <<"t">> \o NatText(j)

RulesOf(conds) == [j \in 1..Len(conds) |-> Rule(conds[j], TemplateOf(j))]

RuleLists == {RulesOf(conds) : conds \in UNION {[1..n -> RuleConditions] : n \in 0..MaxRules}}
FewRuleLists == {RulesOf(conds) : conds \in {<<>>, <<TextTrue>>, <<CondXEq1>>}}

BlockIds == {"A", "B"}

\* the first block is any block with id "A"; the blocks after it are taken
\* from a few, under either id (a repeated id included)
BlockLists ==
    {<<Block("A", reglas)>> \o rest :
        reglas \in RuleLists,
        rest \in UNION {[1..n -> {Block(id, r) : id \in BlockIds, r \in FewRuleLists}] :
                            n \in 0..(MaxBlocks - 1)}}

BlockContexts ==
    {[n \in {} |-> PyNone]} \cup {[n \in {<<"x">>} |-> PyInt(i)] : i \in 1..MaxInt}

InitBlocks ==
    /\ blocks \in BlockLists
    /\ context \in BlockContexts
    /\ blk_pc = "ready"
    /\ blk_op = ""
    /\ blk_arg = 0
    /\ blk_result = NoneStr
    /\ blk_map = [id \in {} |-> <<>>]
    /\ blk_evaluated = <<>>
    /\ CondIdle /\ BuildIdle /\ DocIdle
    /\ EngineIdle /\ RenderIdle /\ TablesIdle /\ LogicIdle /\ TempIdle

\* a call evaluate_block(blocks[k], context)
EvaluateBlock ==
    /\ blk_pc = "ready"
    /\ \E k \in 1..Len(blocks) :
        /\ blk_arg' = k
        /\ blk_result' = evaluate_block(blocks[k], context).result
        /\ blk_evaluated' = evaluate_block(blocks[k], context).evaluated
    /\ blk_op' = "evaluate_block"
    /\ blk_pc' = "done"
    /\ UNCHANGED <<eng_vars, rnd_vars, tab_vars, lgc_vars, tmp_vars, blocks, blk_map, cond_vars, bld_vars, doc_vars>>

\* a call procesar_bloque(blocks[k], context)
ProcesarBloque ==
    /\ blk_pc = "ready"
    /\ \E k \in 1..Len(blocks) :
        /\ blk_arg' = k
        /\ blk_result' = Some(procesar_bloque(blocks[k], context).result)
        /\ blk_evaluated' = procesar_bloque(blocks[k], context).evaluated
    /\ blk_op' = "procesar_bloque"
    /\ blk_pc' = "done"
    /\ UNCHANGED <<eng_vars, rnd_vars, tab_vars, lgc_vars, tmp_vars, blocks, blk_map, cond_vars, bld_vars, doc_vars>>

\* a call evaluate_all_blocks(blocks, context)
EvaluateAllBlocks ==
    /\ blk_pc = "ready"
    /\ blk_map' = evaluate_all_blocks(blocks, context)
    /\ blk_op' = "evaluate_all_blocks"
    /\ blk_pc' = "done"
    /\ UNCHANGED <<eng_vars, rnd_vars, tab_vars, lgc_vars, tmp_vars, blocks, blk_arg, blk_result, blk_evaluated, cond_vars, bld_vars, doc_vars>>

\* a call procesar_todos(context) of a processor whose bloques_texto is blocks
ProcesarTodos ==
    /\ blk_pc = "ready"
    /\ blk_map' = procesar_todos(blocks, context)
    /\ blk_op' = "procesar_todos"
    /\ blk_pc' = "done"
    /\ UNCHANGED <<eng_vars, rnd_vars, tab_vars, lgc_vars, tmp_vars, blocks, blk_arg, blk_result, blk_evaluated, cond_vars, bld_vars, doc_vars>>

NextBlocks == EvaluateBlock \/ ProcesarBloque \/ EvaluateAllBlocks \/ ProcesarTodos

SpecBlocks == InitBlocks /\ [][NextBlocks]_vars

\* ---- properties of block resolution
\* the rules whose condition is true in the context
TrueRules(reglas, ctx) ==
    {k \in 1..Len(reglas) : evaluate_condition(reglas[k].cuando, ctx).result}

\* the smallest index of a rule whose condition is true (0: there is none)
FirstTrue(reglas, ctx) ==
    IF TrueRules(reglas, ctx) = {} THEN 0
    ELSE CHOOSE k \in TrueRules(reglas, ctx) : \A j \in TrueRules(reglas, ctx) : k <= j

\* C1: evaluate_block returns the template of the first rule whose condition
\* is true and procesar_bloque the rendering of that template; the rules
\* after it are not evaluated; when no rule is true evaluate_block returns
\* None and procesar_bloque the empty string.
C1_FirstMatchWins ==
    blk_pc = "done" /\ blk_op \in {"evaluate_block", "procesar_bloque"} =>
        LET reglas == blocks[blk_arg].reglas
            first == FirstTrue(reglas, context)
        IN  IF first = 0
            THEN /\ blk_evaluated = [j \in 1..Len(reglas) |-> j]
                 /\ blk_result = IF blk_op = "evaluate_block" THEN NoneStr ELSE Some(<<>>)
            ELSE /\ blk_evaluated = [j \in 1..first |-> j]
                 /\ blk_result =
                        IF blk_op = "evaluate_block" THEN Some(reglas[first].plantilla)
                        ELSE Some(renderizar_plantilla(reglas[first].plantilla, context))

\* evaluate_block has run on a block whose two rules are both true
C1_Witness ==
    /\ blk_pc = "done"
    /\ blk_op = "evaluate_block"
    /\ Len(blocks[blk_arg].reglas) = 2
    /\ TrueRules(blocks[blk_arg].reglas, context) = {1, 2}
    /\ blk_evaluated = <<1>>
    /\ blk_result = Some(TemplateOf(1))

\* what the block resolves to: the template of its first true rule, the
\* empty string when there is none
OwnText(block, ctx) ==
    IF FirstTrue(block.reglas, ctx) = 0 THEN <<>>
    ELSE block.reglas[FirstTrue(block.reglas, ctx)].plantilla

DeclaredIds == {blocks[k].id : k \in 1..Len(blocks)}

Entry(key, value) == [key |-> key, value |-> value]

\* context.get(key, default)
ContextGet(entries, key, default) ==
    IF \E i \in 1..Len(entries) : entries[i].key = key
    THEN entries[CHOOSE i \in 1..Len(entries) : entries[i].key = key].value
    ELSE default

UseXmlEngineKey ==
    <<"_", "u", "s", "e", "_", "x", "m", "l", "_", "e", "n", "g", "i", "n", "e">>

\* key.startswith('_')
StartsWithUnderscore(key) == key # <<>> /\ key[1] = "_"

\* render_word_report: use_xml_engine = context.get("_use_xml_engine", False)
use_xml_engine(entries) == Truthy(ContextGet(entries, UseXmlEngineKey, PyBool(FALSE)))

\* replace_variables: the entries with v is not None and v != "" and str(v).strip()
KeptByReplaceVariables(e) ==
    /\ e.value.ty # "none"
    /\ e.value # PyStr(<<>>)
    /\ ~IsBlankText(PyStrOf(e.value))

context_filtered(entries) == SelectSeq(entries, KeptByReplaceVariables)

\* clean_blank_lines on a text of one line: trailing blanks go, a blank
\* text becomes empty
clean_blank_lines(text) == IF IsBlankText(text) THEN <<>> ELSE RStrip(text)

\* clean_context_formatting: '_' entries kept as they are, str values
\* cleaned, None becomes ''
clean_context_formatting(entries) ==
    [i \in 1..Len(entries) |->
        IF StartsWithUnderscore(entries[i].key) THEN entries[i]
        ELSE IF entries[i].value.ty = "str"
             THEN Entry(entries[i].key, PyStr(clean_blank_lines(entries[i].value.s)))
        ELSE IF entries[i].value.ty = "none" THEN Entry(entries[i].key, PyStr(<<>>))
        ELSE entries[i]]

NotReserved(e) == ~StartsWithUnderscore(e.key)

\* _render_with_jinja2: clean_context, the formatted entries whose key does
\* not start with '_'
clean_context(entries) == SelectSeq(clean_context_formatting(entries), NotReserved)

\* the mapping a sequence of entries denotes
AsMapping(entries) ==
    [k \in {entries[i].key : i \in 1..Len(entries)} |-> ContextGet(entries, k, PyNone)]

\* doc.render(clean_context) on one text node: its {{name}} tags expanded;
\* [ok, node]
RenderNode(text_elem, entries) ==
    [ok |-> jinja_render(text_elem.text, AsMapping(entries)).ok,
     node |-> [text_elem EXCEPT !.text = jinja_render(text_elem.text, AsMapping(entries)).text]]

\* doc.render(clean_context): every text node rendered; a template error
\* leaves the document as it was
DocRender(paras, entries) ==
    IF \A p \in 1..Len(paras) : \A k \in 1..Len(paras[p].texts) :
           RenderNode(paras[p].texts[k], entries).ok
    THEN [p \in 1..Len(paras) |->
             Paragraph([k \in 1..Len(paras[p].texts) |->
                           RenderNode(paras[p].texts[k], entries).node])]
    ELSE paras

(***************************************************************************)
(* Specification SpecDoc: render_word_report on a document and a context.  *)
(* The XML path runs replace_variables, one step of its loops at a time;   *)
(* the Jinja path renders with the cleaned context.                        *)
(***************************************************************************)
\* a paragraph's text is split over at most MaxNodes text nodes
MaxNodes == 2

KeyAB == <<"a", "b">>
KeyCD == <<"c", "d">>

\* the ways of cutting text into n consecutive pieces (empty ones included)
RECURSIVE Splits(_, _)
Splits(text, n) ==
    IF n = 1 THEN {<<text>>}
    ELSE UNION {{<<SubSeq(text, 1, i)>> \o rest : rest \in Splits(SubSeq(text, i + 1, Len(text)), n - 1)} :
                   i \in 0..Len(text)}

\* a text node as the template holds it
TemplateNode(text) == set_text_with_preserve(TextNode(<<>>, FALSE), text)

ParagraphOf(pieces) == Paragraph([k \in 1..Len(pieces) |-> TemplateNode(pieces[k])])

\* paragraph texts that are cut in every way, and texts kept in one node
SplitTexts == {KeyAB, KeyAB \o KeyAB, KeyCD, <<"a", " ">> \o KeyAB}
WholeTexts == {<<>>, UseXmlEngineKey, Tag(KeyAB), Tag(UseXmlEngineKey)}

FirstParagraphs ==
    {ParagraphOf(pieces) : pieces \in UNION {Splits(t, n) : t \in SplitTexts, n \in 1..MaxNodes}}
        \cup {ParagraphOf(<<t>>) : t \in WholeTexts} \cup {Paragraph(<<>>)}

Documents ==
    {<<p>> \o rest : p \in FirstParagraphs,
                     rest \in {<<>>, <<ParagraphOf(<<KeyAB>>)>>, <<ParagraphOf(<<KeyCD>>)>>}}

ValuesAB == {PyStr(<<"X">>), PyStr(<<" ">>), PyStr(<<>>), PyNone}
ValuesCD == {PyStr(<<"Y">>), PyStr(KeyAB)}

\* contexts: an entry for 'ab', an entry for 'cd' and '_use_xml_engine':
\* True, each present or not, in either order
RenderContexts ==
    LET EAB == {<<>>} \cup {<<Entry(KeyAB, v)>> : v \in ValuesAB}
        ECD == {<<>>} \cup {<<Entry(KeyCD, v)>> : v \in ValuesCD}
        EU == {<<>>, <<Entry(UseXmlEngineKey, PyBool(TRUE))>>}
    IN  {e1 \o e2 \o u : e1 \in EAB, e2 \in ECD, u \in EU}
            \cup {e2 \o e1 \o u : e1 \in EAB, e2 \in ECD, u \in EU}
            \cup {u \o e1 \o e2 : e1 \in EAB, e2 \in ECD, u \in EU}

InitDoc ==
    /\ paragraphs \in Documents
    /\ render_ctx \in RenderContexts
    /\ engine_kind = ""
    /\ ctx_filtered = <<>>
    /\ rv_pc = "start"
    /\ rv_para = 0
    /\ rv_key = 0
    /\ rv_replaced = [p \in 1..Len(paragraphs) |-> <<>>]
    /\ context = [n \in {} |-> PyNone]
    /\ CondIdle /\ BlocksIdle /\ BuildIdle
    /\ EngineIdle /\ RenderIdle /\ TablesIdle /\ LogicIdle /\ TempIdle

\* a test that looks for the marker inside each text node on its own
MarkerInSomeNode(para, marker) ==
    \E k \in 1..Len(para.texts) : Contains(para.texts[k].text, marker)

\* marker in para_text, para_text being _get_paragraph_text(para)
MarkerInParaText(para, marker) == Contains(get_paragraph_text(para), marker)

\* render_word_report takes the XML path: _render_with_xml_engine hands the
\* context to replace_variables, which filters it and enters its loops
RenderXml ==
    /\ rv_pc = "start"
    /\ use_xml_engine(render_ctx)
    /\ engine_kind' = "xml"
    /\ ctx_filtered' = context_filtered(render_ctx)
    /\ IF context_filtered(render_ctx) = <<>> \/ paragraphs = <<>>
       THEN rv_pc' = "done" /\ rv_para' = 0
       ELSE rv_pc' = "loop" /\ rv_para' = 1
    /\ rv_key' = 0
    /\ UNCHANGED <<eng_vars, rnd_vars, tab_vars, lgc_vars, tmp_vars, paragraphs, render_ctx, rv_replaced, cond_vars, blk_vars, bld_vars>>

\* where the paragraph loop goes after paragraph rv_para
LeaveParagraph ==
    /\ IF rv_para < Len(paragraphs)
       THEN rv_pc' = "loop" /\ rv_para' = rv_para + 1
       ELSE rv_pc' = "done" /\ rv_para' = rv_para
    /\ rv_key' = 0

\* for para in paragraphs: para_text = ...; if not para_text: continue
EnterParagraph ==
    /\ rv_pc = "loop"
    /\ rv_key = 0
    /\ IF get_paragraph_text(paragraphs[rv_para]) = <<>>
       THEN LeaveParagraph
       ELSE rv_pc' = "loop" /\ rv_para' = rv_para /\ rv_key' = 1
    /\ UNCHANGED <<eng_vars, rnd_vars, tab_vars, lgc_vars, tmp_vars, paragraphs, render_ctx, engine_kind, ctx_filtered, rv_replaced,
                   cond_vars, blk_vars, bld_vars>>

\* while marker in para_text: one replacement, para_text read again
ReplaceOccurrence ==
    /\ rv_pc = "loop"
    /\ rv_key >= 1
    /\ MarkerInParaText(paragraphs[rv_para], ctx_filtered[rv_key].key)
    /\ paragraphs' = [paragraphs EXCEPT ![rv_para] =
           replace_marker_in_paragraph_xml(@, ctx_filtered[rv_key].key,
                                           PyStrOf(ctx_filtered[rv_key].value))]
    /\ rv_replaced' = [rv_replaced EXCEPT ![rv_para] = Append(@, rv_key)]
    /\ UNCHANGED <<eng_vars, rnd_vars, tab_vars, lgc_vars, tmp_vars, render_ctx, engine_kind, ctx_filtered, rv_pc, rv_para, rv_key,
                   cond_vars, blk_vars, bld_vars>>

\* the marker does not occur (any more): the next entry, or the next paragraph
NextEntry ==
    /\ rv_pc = "loop"
    /\ rv_key >= 1
    /\ ~MarkerInParaText(paragraphs[rv_para], ctx_filtered[rv_key].key)
    /\ IF rv_key < Len(ctx_filtered)
       THEN rv_pc' = "loop" /\ rv_para' = rv_para /\ rv_key' = rv_key + 1
       ELSE LeaveParagraph
    /\ UNCHANGED <<eng_vars, rnd_vars, tab_vars, lgc_vars, tmp_vars, paragraphs, render_ctx, engine_kind, ctx_filtered, rv_replaced,
                   cond_vars, blk_vars, bld_vars>>

\* render_word_report takes the Jinja path: _render_with_jinja2 renders the
\* document with clean_context
RenderJinja ==
    /\ rv_pc = "start"
    /\ ~use_xml_engine(render_ctx)
    /\ engine_kind' = "jinja"
    /\ ctx_filtered' = clean_context(render_ctx)
    /\ paragraphs' = DocRender(paragraphs, clean_context(render_ctx))
    /\ rv_pc' = "done"
    /\ UNCHANGED <<eng_vars, rnd_vars, tab_vars, lgc_vars, tmp_vars, render_ctx, rv_para, rv_key, rv_replaced, cond_vars, blk_vars, bld_vars>>

NextDoc == RenderXml \/ EnterParagraph \/ ReplaceOccurrence \/ NextEntry \/ RenderJinja

SpecDoc == InitDoc /\ [][NextDoc]_vars

\* ---- properties of variable substitution
ParagraphHolds(p, key) == Contains(get_paragraph_text(paragraphs[p]), key)

\* the value is not None and not the empty string
NonEmptyValue(v) == v.ty # "none" /\ v # PyStr(<<>>)

\* C9 (as stated): when replace_variables has returned, no paragraph holds
\* the key of a context entry whose value is non-empty.
C9_NoKeyOfNonEmptyEntry ==
    rv_pc = "done" /\ engine_kind = "xml" =>
        \A p \in 1..Len(paragraphs) : \A i \in 1..Len(render_ctx) :
            NonEmptyValue(render_ctx[i].value) => ~ParagraphHolds(p, render_ctx[i].key)

\* C9 (amended): when replace_variables has returned, no paragraph holds the
\* key of an entry the filter kept (value not None, not empty, not blank),
\* unless an entry after it in the context's order was replaced in that
\* paragraph.
C9_NoKeyOfKeptEntry ==
    rv_pc = "done" /\ engine_kind = "xml" =>
        \A p \in 1..Len(paragraphs) : \A i \in 1..Len(ctx_filtered) :
            (\A n \in 1..Len(rv_replaced[p]) : rv_replaced[p][n] <= i)
                => ~ParagraphHolds(p, ctx_filtered[i].key)

\* replace_variables has returned after replacing 'ab' twice in a paragraph
\* of two text nodes, the second occurrence lying across both nodes
C9_Witness ==
    /\ rv_pc = "done"
    /\ engine_kind = "xml"
    /\ Len(paragraphs[1].texts) = 2
    /\ paragraphs[1].texts[1].text = <<"X", "X">>
    /\ paragraphs[1].texts[2].text = <<>>
    /\ Len(rv_replaced[1]) = 2
    /\ ctx_filtered[rv_replaced[1][1]].key = KeyAB

\* C10: in every render, on either path, no entry whose key starts with '_'
\* is handed to variable substitution, and no such entry's value is written
\* into a paragraph.
C10_ReservedKeysFiltered ==
    rv_pc \in {"loop", "done"} =>
        /\ \A i \in 1..Len(ctx_filtered) : ~StartsWithUnderscore(ctx_filtered[i].key)
        /\ \A p \in 1..Len(paragraphs) : \A n \in 1..Len(rv_replaced[p]) :
               ~StartsWithUnderscore(ctx_filtered[rv_replaced[p][n]].key)

(***************************************************************************)
(* Text as the OOXML engine reads it.  Characters outside ASCII are named: *)
(* NBSP is U+00A0, NDASH is U+2013.                                        *)
(***************************************************************************)
NBSP == "nbsp"
NDASH == "ndash"

\* the characters str.strip() removes and the pattern class \s matches
WhiteSpace == {SPACE, "\t", "\n", NBSP}

RECURSIVE PyLStrip(_)
PyLStrip(text) ==
    IF text # <<>> /\ Head(text) \in WhiteSpace THEN PyLStrip(Tail(text)) ELSE text

RECURSIVE PyRStrip(_)
PyRStrip(text) ==
    IF text # <<>> /\ text[Len(text)] \in WhiteSpace
    THEN PyRStrip(SubSeq(text, 1, Len(text) - 1))
    ELSE text

\* text.strip()
PyStrip(text) == PyLStrip(PyRStrip(text))

\* the character classes of the marker patterns: \d, or [^>]
InClass(c, digits) == IF digits THEN c \in Digits ELSE c # ">"

\* the position after the longest run of class characters that starts at i
RECURSIVE ClassRunEnd(_, _, _)
ClassRunEnd(text, i, digits) ==
    IF i <= Len(text) /\ InClass(text[i], digits) THEN ClassRunEnd(text, i + 1, digits) ELSE i

MarkerOpen == <<"<", "<">>
MarkerClose == <<">", ">">>

\* a match of r'<<[^>]+>>' (digits FALSE) or r'<<\d+>>' (digits TRUE) that
\* starts at i: the position after it, 0 when there is none
MarkerMatchEnd(text, i, digits) ==
    IF /\ StartsWithAt(text, MarkerOpen, i)
       /\ ClassRunEnd(text, i + 2, digits) > i + 2
       /\ StartsWithAt(text, MarkerClose, ClassRunEnd(text, i + 2, digits))
    THEN ClassRunEnd(text, i + 2, digits) + 2
    ELSE 0

\* marker_pattern.search(text) is not None
HasMarker(text, digits) == \E i \in 1..Len(text) : MarkerMatchEnd(text, i, digits) # 0

\* where marker_pattern.search(text) matches (the leftmost match)
FirstMarkerAt(text, digits) ==
    CHOOSE i \in 1..Len(text) :
        /\ MarkerMatchEnd(text, i, digits) # 0
        /\ \A j \in 1..(i - 1) : MarkerMatchEnd(text, j, digits) = 0

\* marker_pattern.search(text).group(0)
FirstMarker(text, digits) ==
    SubSeq(text, FirstMarkerAt(text, digits),
           MarkerMatchEnd(text, FirstMarkerAt(text, digits), digits) - 1)

\* the first position from i on where the pattern matches (0: nowhere)
NextMarkerAt(text, i, digits) ==
    IF \E j \in i..Len(text) : MarkerMatchEnd(text, j, digits) # 0
    THEN CHOOSE j \in i..Len(text) :
            /\ MarkerMatchEnd(text, j, digits) # 0
            /\ \A h \in i..(j - 1) : MarkerMatchEnd(text, h, digits) = 0
    ELSE 0

\* marker_pattern.sub('', text) from position i on, the next match being at j
RECURSIVE SubMarkersFrom(_, _, _)
SubMarkersAt(text, i, digits, j) ==
    IF j = 0 THEN SubSeq(text, i, Len(text))
    ELSE SubSeq(text, i, j - 1) \o SubMarkersFrom(text, MarkerMatchEnd(text, j, digits), digits)
SubMarkersFrom(text, i, digits) == SubMarkersAt(text, i, digits, NextMarkerAt(text, i, digits))

\* marker_pattern.sub('', text)
SubMarkers(text, digits) == SubMarkersFrom(text, 1, digits)

\* the class [\d\.\-\)\(\s•·◦▪▫○●\*] of clean_unused_markers
DecorChars ==
    Digits \cup WhiteSpace \cup {".", "-", ")", "(", "*"}
        \cup {"bullet", "middot", "wbullet", "blksq", "whtsq", "whtcircle", "blkcircle"}

\* re.sub(r'^[\d\.\-\)\(\s•·◦▪▫○●\*]+$', '', text) for a stripped text
SubDecoration(text) ==
    IF text # <<>> /\ \A i \in 1..Len(text) : text[i] \in DecorChars THEN <<>> ELSE text

\* r'[\.\s]+\d+$' matches title from position i to its end
TitleTailAt(title, i) ==
    \E j \in (i + 1)..Len(title) :
        /\ \A k \in i..(j - 1) : title[k] \in WhiteSpace \cup {"."}
        /\ \A k \in j..Len(title) : title[k] \in Digits

\* re.sub(r'[\.\s]+\d+$', '', title).strip()
CleanTitle(title) ==
    IF \E i \in 1..Len(title) : TitleTailAt(title, i)
    THEN PyStrip(SubSeq(title, 1,
            (CHOOSE i \in 1..Len(title) :
                TitleTailAt(title, i) /\ \A j \in 1..(i - 1) : ~TitleTailAt(title, j)) - 1))
    ELSE PyStrip(title)

\* '.' * n
Dots(n) == [i \in 1..n |-> "."]

Max(a, b) == IF a >= b THEN a ELSE b
Min(a, b) == IF a <= b THEN a ELSE b

(***************************************************************************)
(* The document tree.  root is the sequence of the children of w:body.  An *)
(* element is one of                                                       *)
(*   a paragraph  [tag |-> "p", id, sectPr, texts, drawing, pict, vml,     *)
(*                 brk, colbrk, lrpb]                                      *)
(*   a table      [tag |-> "tbl", kids]: kids are the children of its      *)
(*                cells, in document order                                 *)
(*   a section-properties element that is a child of its container        *)
(*                [tag |-> "sectPr"].                                      *)
(* Of a paragraph: id names the paragraph of the loaded template (0 for an *)
(* element made or copied in later); sectPr is "none" or the w:type of its *)
(* w:pPr/w:sectPr ("untyped" when that has no w:type); texts are its w:t   *)
(* nodes, one to a run; drawing, pict, vml count its w:drawing, w:pict and *)
(* v:shape / v:imagedata elements; brk and colbrk count its w:br of type   *)
(* page and column; lrpb: it holds a w:lastRenderedPageBreak.              *)
(***************************************************************************)
SectPrElem == [tag |-> "sectPr"]
Tbl(kids) == [tag |-> "tbl", kids |-> kids]
Para(id, texts) ==
    [tag |-> "p", id |-> id, sectPr |-> "none", texts |-> texts, drawing |-> 0, pict |-> 0,
     vml |-> 0, brk |-> 0, colbrk |-> 0, lrpb |-> FALSE]

\* len(root.findall('.//w:sectPr')) over a sequence of elements
RECURSIVE CountSections(_)
CountSections(kids) ==
    IF kids = <<>> THEN 0
    ELSE (CASE Head(kids).tag = "sectPr" -> 1
            [] Head(kids).tag = "p" -> IF Head(kids).sectPr # "none" THEN 1 ELSE 0
            [] Head(kids).tag = "tbl" -> CountSections(Head(kids).kids))
         + CountSections(Tail(kids))

\* len(root.findall('.//w:drawing')) over a sequence of elements
RECURSIVE CountDrawings(_)
CountDrawings(kids) ==
    IF kids = <<>> THEN 0
    ELSE (CASE Head(kids).tag = "sectPr" -> 0
            [] Head(kids).tag = "p" -> Head(kids).drawing
            [] Head(kids).tag = "tbl" -> CountDrawings(Head(kids).kids))
         + CountDrawings(Tail(kids))

\* root.findall('.//w:p'): the paragraphs, in document order
RECURSIVE AllParagraphs(_)
AllParagraphs(kids) ==
    IF kids = <<>> THEN <<>>
    ELSE (CASE Head(kids).tag = "sectPr" -> <<>>
            [] Head(kids).tag = "p" -> <<Head(kids)>>
            [] Head(kids).tag = "tbl" -> AllParagraphs(Head(kids).kids))
         \o AllParagraphs(Tail(kids))

\* XMLWordEngineAdapter._paragraph_has_section_break_xml
paragraph_has_section_break_xml(para) == para.sectPr # "none"

\* XMLWordEngineAdapter._paragraph_has_section_page_break
paragraph_has_section_page_break(para) ==
    para.sectPr \in {"untyped", "nextPage", "evenPage", "oddPage"}

\* XMLWordEngineAdapter._has_page_break_xml
has_page_break_xml(para) ==
    paragraph_has_section_page_break(para) \/ para.lrpb \/ para.brk > 0

\* XMLWordEngineAdapter._has_drawing_or_image_xml
has_drawing_or_image_xml(para) == para.drawing > 0 \/ para.pict > 0 \/ para.vml > 0

\* XMLWordEngineAdapter._insert_page_break_at_end_of_paragraph and
\* _insert_page_break_at_start_of_paragraph: one more run holding a page break
insert_page_break(para) == [para EXCEPT !.brk = @ + 1]

\* XMLWordEngineAdapter._set_paragraph_text
set_paragraph_text(para, new_text) ==
    IF para.texts # <<>>
    THEN [para EXCEPT !.texts = <<set_text_with_preserve(para.texts[1], new_text)>>]
    ELSE [para EXCEPT !.texts = <<set_text_with_preserve(TextNode(<<>>, FALSE), new_text)>>]

\* XMLWordEngineAdapter._remove_marker_from_paragraph: the marker replaced
\* by '' until the paragraph's text no longer holds it
RECURSIVE remove_marker_from_paragraph(_, _)
remove_marker_from_paragraph(para, marker) ==
    IF marker = <<>> \/ ~Contains(get_paragraph_text(para), marker) THEN para
    ELSE remove_marker_from_paragraph(replace_marker_in_paragraph_xml(para, marker, <<>>), marker)

(***************************************************************************)
(* Engine operations on the tree.                                          *)
(***************************************************************************)
\* replace_variables, the loop `while marker in para_text` for one entry
RECURSIVE ReplaceWhilePresent(_, _, _)
ReplaceWhilePresent(para, marker, value) ==
    IF ~Contains(get_paragraph_text(para), marker) THEN para
    ELSE ReplaceWhilePresent(replace_marker_in_paragraph_xml(para, marker, value), marker, value)

\* replace_variables, the loop over context_filtered for one paragraph
RECURSIVE ReplaceEntries(_, _, _)
ReplaceEntries(para, entries, k) ==
    IF k > Len(entries) THEN para
    ELSE ReplaceEntries(ReplaceWhilePresent(para, entries[k].key, PyStrOf(entries[k].value)),
                        entries, k + 1)

\* text_elem.text = marker_pattern.sub('', text_elem.text) on every text
\* node of the paragraph
SubInTextNodes(para, digits) ==
    [para EXCEPT !.texts =
        [k \in 1..Len(para.texts) |->
            [para.texts[k] EXCEPT !.text = SubMarkers(para.texts[k].text, digits)]]]

Salto == <<"{", "s", "a", "l", "t", "o", "}">>

\* process_salto_markers on the text nodes of one paragraph, from node k:
\* the node keeps the text before its first {salto}, a run with a page
\* break follows, then a new run with the text after it (if any)
RECURSIVE SaltoNodes(_, _)
SaltoNodes(texts, k) ==
    IF k > Len(texts) THEN <<>>
    ELSE IF Contains(texts[k].text, Salto)
    THEN <<[texts[k] EXCEPT !.text = SubSeq(@, 1, IndexOf(@, Salto) - 1)]>>
            \o (IF IndexOf(texts[k].text, Salto) + Len(Salto) <= Len(texts[k].text)
                THEN <<TextNode(SubSeq(texts[k].text, IndexOf(texts[k].text, Salto) + Len(Salto),
                                       Len(texts[k].text)), TRUE)>>
                ELSE <<>>)
            \o SaltoNodes(texts, k + 1)
    ELSE <<texts[k]>> \o SaltoNodes(texts, k + 1)

\* process_salto_markers on one paragraph
process_salto_in_paragraph(para) ==
    IF ~Contains(get_paragraph_text(para), Salto) THEN para
    ELSE [para EXCEPT !.texts = SaltoNodes(para.texts, 1),
                      !.brk = @ + Cardinality({k \in 1..Len(para.texts) :
                                                  Contains(para.texts[k].text, Salto)})]

\* what an operation that visits every paragraph of the tree leaves in the
\* place of one paragraph
ParagraphOp(para, mode, arg) ==
    CASE mode = "replace_variables" ->
            IF get_paragraph_text(para) = <<>> THEN <<para>>
            ELSE <<ReplaceEntries(para, arg, 1)>>
      [] mode = "remove_containing" ->
            IF \E t \in 1..Len(arg) : Contains(get_paragraph_text(para), arg[t])
            THEN <<>> ELSE <<para>>
      [] mode = "numeric_markers" -> <<SubInTextNodes(para, TRUE)>>
      [] mode = "all_markers" -> <<SubInTextNodes(para, FALSE)>>
      [] mode = "salto" -> <<process_salto_in_paragraph(para)>>

\* for para in root.findall('.//w:p'): the operation on every paragraph
RECURSIVE EachParagraph(_, _, _)
EachParagraph(kids, mode, arg) ==
    IF kids = <<>> THEN <<>>
    ELSE (CASE Head(kids).tag = "p" -> ParagraphOp(Head(kids), mode, arg)
            [] Head(kids).tag = "tbl" -> <<Tbl(EachParagraph(Head(kids).kids, mode, arg))>>
            [] Head(kids).tag = "sectPr" -> <<Head(kids)>>)
         \o EachParagraph(Tail(kids), mode, arg)

\* XMLWordEngineAdapter.replace_variables on the tree
replace_variables(kids, entries) ==
    IF context_filtered(entries) = <<>> THEN kids
    ELSE EachParagraph(kids, "replace_variables", context_filtered(entries))

DiscrepanciasTargets ==
    << <<"A", "n", "e", "x", "o", " ", "I", "V", " ", NDASH, " ", "D", "i", "s", "c", "r", "e",
         "p", "a", "n", "c", "i", "a", "s", " ", "f", "o", "r", "m", "a", "l", "e", "s">>,
       <<"A", "n", "e", "x", "o", " ", "I", "V", " ", "-", " ", "D", "i", "s", "c", "r", "e",
         "p", "a", "n", "c", "i", "a", "s", " ", "f", "o", "r", "m", "a", "l", "e", "s">> >>

\* XMLWordEngineAdapter._remove_paragraphs_containing_text
remove_paragraphs_containing_text(kids, targets) ==
    IF targets = <<>> THEN kids ELSE EachParagraph(kids, "remove_containing", targets)

\* XMLWordEngineAdapter.remove_discrepancias_formales_section
remove_discrepancias_formales_section(kids) ==
    remove_paragraphs_containing_text(kids, DiscrepanciasTargets)

\* XMLWordEngineAdapter.process_salto_markers
process_salto_markers(kids) == EachParagraph(kids, "salto", <<>>)

\* XMLWordEngineAdapter._remove_numeric_markers_xml
remove_numeric_markers_xml(kids) == EachParagraph(kids, "numeric_markers", <<>>)

\* XMLWordEngineAdapter._remove_all_markers_from_tables
remove_all_markers_from_tables(kids) ==
    [k \in 1..Len(kids) |->
        IF kids[k].tag = "tbl" THEN Tbl(EachParagraph(kids[k].kids, "all_markers", <<>>))
        ELSE kids[k]]

\* the sectPr elements below an element removed: elem.findall('.//w:sectPr')
RECURSIVE StripSections(_)
StripSections(kids) ==
    IF kids = <<>> THEN <<>>
    ELSE (CASE Head(kids).tag = "sectPr" -> <<>>
            [] Head(kids).tag = "p" -> <<[Head(kids) EXCEPT !.sectPr = "none"]>>
            [] Head(kids).tag = "tbl" -> <<Tbl(StripSections(Head(kids).kids))>>)
         \o StripSections(Tail(kids))

\* XMLWordEngineAdapter._remove_section_properties_from_element: the
\* element as it is inserted (a one-element sequence).  The pPr/sectPr of a
\* paragraph and every sectPr below the element go; the element itself is
\* not looked at, so a sectPr element stays what it is.
remove_section_properties_from_element(elem) ==
    IF elem.tag = "sectPr" THEN <<elem>> ELSE StripSections(<<elem>>)

SpecialTableMarker ==
    <<"<", "<", "T", "a", "b", "l", "a", " ", "d", "e", " ", "c", "u", "m", "p", "l", "i", "m",
      "i", "e", "n", "t", "o", " ", "f", "o", "r", "m", "a", "l", " ", "M", "F", ">", ">">>

\* _insert_column_break_before_paragraph: the paragraph it makes
ColumnBreakParagraph == [Para(0, <<>>) EXCEPT !.colbrk = 1]

\* XMLWordEngineAdapter._create_spacing_paragraph
create_spacing_paragraph == Para(0, <<TextNode(<<NBSP>>, TRUE)>>)

\* XMLWordEngineAdapter._format_cell_value for a column of type text
format_cell_value(value) ==
    IF value = PyNone \/ value = PyStr(<<>>) THEN <<>> ELSE PyStrOf(value)

\* row_data.get(col_id, '')
RowGet(row, col_id) == IF col_id \in DOMAIN row THEN row[col_id] ELSE PyStr(<<>>)

\* _create_table_row: a cell paragraph for each value
create_table_row(cell_values) ==
    [c \in 1..Len(cell_values) |-> Para(0, <<TextNode(cell_values[c], TRUE)>>)]

\* the rows of _create_table_xml for a list of row mappings
RECURSIVE TableRows(_, _)
TableRows(columns, rows) ==
    IF rows = <<>> THEN <<>>
    ELSE create_table_row([c \in 1..Len(columns) |->
                              format_cell_value(RowGet(Head(rows), columns[c].id))])
            \o TableRows(columns, Tail(rows))

\* XMLWordEngineAdapter._create_table_xml (columns of type text, headers
\* given by col["header"]): header row, data rows, footer rows
create_table_xml(table_data) ==
    Tbl(create_table_row([c \in 1..Len(table_data.columns) |-> table_data.columns[c].header])
            \o TableRows(table_data.columns, table_data.rows)
            \o TableRows(table_data.columns, table_data.footer_rows))

\* _insert_table_at_marker from the paragraph found: what its parent holds
\* in its place afterwards
TableAtParagraph(target, marker, table_data) ==
    (IF marker = SpecialTableMarker THEN <<ColumnBreakParagraph>> ELSE <<>>)
        \o <<IF PyStrip(get_paragraph_text(remove_marker_from_paragraph(target, marker))) = <<>>
             THEN set_paragraph_text(remove_marker_from_paragraph(target, marker), <<NBSP>>)
             ELSE remove_marker_from_paragraph(target, marker)>>
        \o <<create_table_xml(table_data), create_spacing_paragraph>>

\* _insert_conditional_block from the paragraph found: what its parent
\* holds in its place afterwards
BlockAtParagraph(target, marker, block_elements) ==
    (IF PyStrip(get_paragraph_text(remove_marker_from_paragraph(target, marker))) = <<>>
            /\ ~paragraph_has_section_break_xml(target)
     THEN <<>>
     ELSE <<remove_marker_from_paragraph(target, marker)>>)
        \o Flatten([i \in 1..Len(block_elements) |->
                       remove_section_properties_from_element(block_elements[i])])

AtParagraph(target, marker, mode, payload) ==
    IF mode = "table" THEN TableAtParagraph(target, marker, payload)
    ELSE BlockAtParagraph(target, marker, payload)

Found(kids) == [found |-> TRUE, kids |-> kids]
NotFound(kids) == [found |-> FALSE, kids |-> kids]

\* the search `for para in all_paras: if marker in para_text: break` from
\* child k on, and the insertion at the paragraph found: [found, kids]
RECURSIVE SpliceFrom(_, _, _, _, _)
RECURSIVE SpliceInTable(_, _, _, _, _, _)
SpliceFrom(kids, k, marker, mode, payload) ==
    IF k > Len(kids) THEN NotFound(kids)
    ELSE IF kids[k].tag = "p"
    THEN IF Contains(get_paragraph_text(kids[k]), marker)
         THEN Found(SubSeq(kids, 1, k - 1) \o AtParagraph(kids[k], marker, mode, payload)
                        \o SubSeq(kids, k + 1, Len(kids)))
         ELSE SpliceFrom(kids, k + 1, marker, mode, payload)
    ELSE IF kids[k].tag = "tbl"
    THEN SpliceInTable(kids, k, marker, mode, payload,
                       SpliceFrom(kids[k].kids, 1, marker, mode, payload))
    ELSE SpliceFrom(kids, k + 1, marker, mode, payload)
SpliceInTable(kids, k, marker, mode, payload, inner) ==
    IF inner.found THEN Found([kids EXCEPT ![k] = Tbl(inner.kids)])
    ELSE SpliceFrom(kids, k + 1, marker, mode, payload)

\* XMLWordEngineAdapter._insert_table_at_marker
insert_table_at_marker(kids, marker, table_data) ==
    SpliceFrom(kids, 1, marker, "table", table_data).kids

\* insert_tables, were it to stop at the first marker it does not find
RECURSIVE insert_tables_stopping(_, _)
insert_tables_stopping(kids, tables_data) ==
    IF tables_data = <<>> THEN kids
    ELSE IF ~SpliceFrom(kids, 1, Head(tables_data).marker, "table", Head(tables_data).table).found
    THEN kids
    ELSE insert_tables_stopping(insert_table_at_marker(kids, Head(tables_data).marker,
                                                       Head(tables_data).table),
                                Tail(tables_data))

\* XMLWordEngineAdapter.insert_tables: tables_data as a sequence of
\* [marker, table] in the dict's order
RECURSIVE insert_tables(_, _)
insert_tables(kids, tables_data) ==
    IF tables_data = <<>> THEN kids
    ELSE insert_tables(insert_table_at_marker(kids, Head(tables_data).marker,
                                              Head(tables_data).table),
                       Tail(tables_data))

\* a fragment file: [exists, readable, has_body, body]: whether the path
\* exists, whether it is a package whose word/document.xml parses, whether
\* that document has a w:body, and the children of the w:body
BlockFile(exists, readable, has_body, body) ==
    [exists |-> exists, readable |-> readable, has_body |-> has_body, body |-> body]

\* what zipfile.ZipFile / etree.parse raise in _insert_conditional_block
\* ("" when they succeed or are not reached)
block_file_error(block_file) ==
    IF block_file.exists /\ ~block_file.readable THEN "BadZipFile" ELSE ""

\* XMLWordEngineAdapter._insert_conditional_block when it raises nothing
insert_conditional_block(kids, marker, block_file) ==
    IF ~block_file.exists THEN kids
    ELSE IF ~block_file.has_body THEN kids
    ELSE SpliceFrom(kids, 1, marker, "block", block_file.body).kids

\* XMLWordEngineAdapter.insert_conditional_blocks: docs_to_insert as a
\* sequence of [marker, file]; [kids, raised]: the tree when the method is
\* left, and the exception that left it ("" for a return)
RECURSIVE insert_conditional_blocks(_, _)
insert_conditional_blocks(kids, docs_to_insert) ==
    IF docs_to_insert = <<>> THEN [kids |-> kids, raised |-> ""]
    ELSE IF block_file_error(Head(docs_to_insert).file) # ""
    THEN [kids |-> kids, raised |-> block_file_error(Head(docs_to_insert).file)]
    ELSE insert_conditional_blocks(insert_conditional_block(kids, Head(docs_to_insert).marker,
                                                            Head(docs_to_insert).file),
                                   Tail(docs_to_insert))

(***************************************************************************)
(* process_table_of_contents.  all_paras, the paragraphs that are children *)
(* of w:body, is kept as tp: the positions in kids of those paragraphs.    *)
(* The paragraphs the method removes are collected (gone) and leave the    *)
(* tree when it returns; what it does in between reads only paragraphs     *)
(* that stay.                                                              *)
(***************************************************************************)
IndiceStart == <<"<", "<", "I", "n", "d", "i", "c", "e", ">", ">">>
IndiceEnd == <<"<", "<", "f", "i", "n", " ", "I", "n", "d", "i", "c", "e", ">", ">">>

\* list(body.findall('w:p')): the positions of the top-level paragraphs
RECURSIVE TopParagraphsFrom(_, _)
TopParagraphsFrom(kids, k) ==
    IF k > Len(kids) THEN <<>>
    ELSE (IF kids[k].tag = "p" THEN <<k>> ELSE <<>>) \o TopParagraphsFrom(kids, k + 1)

TopParagraphs(kids) == TopParagraphsFrom(kids, 1)

\* the loop that looks for <<Indice>> and <<fin Indice>>, from all_paras
\* position n on: [start, end], 0 standing for None
RECURSIVE TocScan(_, _, _, _)
TocScan(kids, tp, n, start) ==
    IF n > Len(tp) THEN [start |-> start, end |-> 0]
    ELSE IF Contains(get_paragraph_text(kids[tp[n]]), IndiceStart)
    THEN TocScan(kids, tp, n + 1, n)
    ELSE IF Contains(get_paragraph_text(kids[tp[n]]), IndiceEnd)
    THEN [start |-> start, end |-> n]
    ELSE TocScan(kids, tp, n + 1, start)

\* toc_entries: the paragraphs between the two, not blank, that hold a
\* numeric marker: [para, title, marker]
RECURSIVE TocEntries(_, _, _, _)
TocEntries(kids, tp, n, end) ==
    IF n >= end THEN <<>>
    ELSE (IF /\ PyStrip(get_paragraph_text(kids[tp[n]])) # <<>>
             /\ HasMarker(get_paragraph_text(kids[tp[n]]), TRUE)
          THEN <<[para |-> n,
                  title |-> PyStrip(SubMarkers(get_paragraph_text(kids[tp[n]]), TRUE)),
                  marker |-> FirstMarker(get_paragraph_text(kids[tp[n]]), TRUE)]>>
          ELSE <<>>)
         \o TocEntries(kids, tp, n + 1, end)

\* the first all_paras position after `end` whose paragraph holds marker
\* (0: none)
MarkerPosition(kids, tp, marker, end) ==
    IF \E m \in (end + 1)..Len(tp) : Contains(get_paragraph_text(kids[tp[m]]), marker)
    THEN CHOOSE m \in (end + 1)..Len(tp) :
            /\ Contains(get_paragraph_text(kids[tp[m]]), marker)
            /\ \A j \in (end + 1)..(m - 1) : ~Contains(get_paragraph_text(kids[tp[j]]), marker)
    ELSE 0

\* _insert_page_break_before_marker_xml, the marker being at position m
BreakBeforePosition(kids, tp, m) ==
    IF m = 0 THEN kids
    ELSE IF has_page_break_xml(kids[tp[m]]) \/ (m > 1 /\ has_page_break_xml(kids[tp[m - 1]]))
    THEN kids
    ELSE IF m > 1 THEN [kids EXCEPT ![tp[m - 1]] = insert_page_break(@)]
    ELSE [kids EXCEPT ![tp[m]] = insert_page_break(@)]

\* XMLWordEngineAdapter._insert_page_break_before_marker_xml
insert_page_break_before_marker_xml(kids, tp, marker, end) ==
    BreakBeforePosition(kids, tp, MarkerPosition(kids, tp, marker, end))

\* XMLWordEngineAdapter._calculate_page_count_until_idx
calculate_page_count_until_idx(kids, tp, end) ==
    1 + Cardinality({n \in 1..Min(end, Len(tp)) : has_page_break_xml(kids[tp[n]])})

\* _find_marker_page_number_xml, the marker being at position m; 0 for None
PageNumberAt(kids, tp, end, m) ==
    IF m = 0 THEN 0
    ELSE calculate_page_count_until_idx(kids, tp, end)
            + Cardinality({n \in (end + 1)..m : has_page_break_xml(kids[tp[n]])})

\* XMLWordEngineAdapter._find_marker_page_number_xml
find_marker_page_number_xml(kids, tp, marker, end) ==
    PageNumberAt(kids, tp, end, MarkerPosition(kids, tp, marker, end))

\* phase 1: a page break before the marker of each entry, entry k on
RECURSIVE TocPhase1(_, _, _, _, _)
TocPhase1(kids, tp, entries, k, end) ==
    IF k > Len(entries) THEN kids
    ELSE TocPhase1(insert_page_break_before_marker_xml(kids, tp, entries[k].marker, end),
                   tp, entries, k + 1, end)

\* f"{clean_title} {dots} {page_num}"
TocLine(title, page_num) ==
    CleanTitle(title) \o <<" ">>
        \o Dots(Max(3, 80 - Len(CleanTitle(title)) - Len(NatText(page_num)) - 2))
        \o <<" ">> \o NatText(page_num)

\* phase 3 for one entry, whose marker stands on page page_num (0: on none):
\* [kids, gone]
TocEntryUpdate(doc, tp, entry, page_num) ==
    IF page_num # 0
    THEN [kids |-> [doc.kids EXCEPT ![tp[entry.para]] =
                        set_paragraph_text(@, TocLine(entry.title, page_num))],
          gone |-> doc.gone]
    ELSE [kids |-> doc.kids, gone |-> doc.gone \cup {tp[entry.para]}]

\* phases 2 and 3: the page numbers read from `paged`, the tree after
\* phase 1, and written into the entries, entry k on
RECURSIVE TocPhase3(_, _, _, _, _, _)
TocPhase3(doc, paged, tp, entries, k, end) ==
    IF k > Len(entries) THEN doc
    ELSE TocPhase3(TocEntryUpdate(doc, tp, entries[k],
                                  find_marker_page_number_xml(paged, tp, entries[k].marker, end)),
                   paged, tp, entries, k + 1, end)

\* _remove_marker_from_paragraph(para, marker), then _remove_paragraph(para)
\* if that left it blank
StripDelimiter(doc, at, marker) ==
    [kids |-> [doc.kids EXCEPT ![at] = remove_marker_from_paragraph(@, marker)],
     gone |-> IF PyStrip(get_paragraph_text(remove_marker_from_paragraph(doc.kids[at], marker)))
                    = <<>>
              THEN doc.gone \cup {at} ELSE doc.gone]

\* the elements that were not removed
RECURSIVE Remaining(_, _, _)
Remaining(kids, gone, k) ==
    IF k > Len(kids) THEN <<>>
    ELSE (IF k \in gone THEN <<>> ELSE <<kids[k]>>) \o Remaining(kids, gone, k + 1)

\* the end of process_table_of_contents: the page break at the end of the
\* paragraph before the index, and the removed paragraphs gone
TocFinish(doc, tp, start) ==
    Remaining(IF start > 1 THEN [doc.kids EXCEPT ![tp[start - 1]] = insert_page_break(@)]
              ELSE doc.kids,
              doc.gone, 1)

\* phase 4 and the two delimiters
TocPhase4(doc, tp, start, end) ==
    TocFinish(StripDelimiter(StripDelimiter([kids |-> remove_numeric_markers_xml(doc.kids),
                                             gone |-> doc.gone],
                                            tp[start], IndiceStart),
                             tp[end], IndiceEnd),
              tp, start)

\* process_table_of_contents once the entries are known, `paged` being the
\* tree after phase 1
TocPhases(paged, tp, start, end, entries) ==
    TocPhase4(TocPhase3([kids |-> paged, gone |-> {}], paged, tp, entries, 1, end),
              tp, start, end)

\* process_table_of_contents once both delimiters are found
TocBetween(kids, tp, start, end, entries) ==
    IF entries = <<>>
    THEN [kids EXCEPT ![tp[start]] = remove_marker_from_paragraph(@, IndiceStart),
                      ![tp[end]] = remove_marker_from_paragraph(@, IndiceEnd)]
    ELSE TocPhases(TocPhase1(kids, tp, entries, 1, end), tp, start, end, entries)

TocWithBounds(kids, tp, bounds) ==
    IF bounds.start = 0 \/ bounds.end = 0 THEN kids
    ELSE TocBetween(kids, tp, bounds.start, bounds.end,
                    TocEntries(kids, tp, bounds.start + 1, bounds.end))

\* XMLWordEngineAdapter.process_table_of_contents
process_table_of_contents(kids) ==
    TocWithBounds(kids, TopParagraphs(kids), TocScan(kids, TopParagraphs(kids), 1, 0))

(***************************************************************************)
(* The cleanup passes.                                                     *)
(***************************************************************************)
\* clean_unused_markers on one top-level paragraph: <<>> when the paragraph
\* is put on paras_to_delete, else the paragraph with the markers taken out
\* of each of its text nodes
CleanMarkersInParagraph(para) ==
    IF ~HasMarker(get_paragraph_text(para), FALSE) THEN <<para>>
    ELSE IF paragraph_has_section_break_xml(para) THEN <<SubInTextNodes(para, FALSE)>>
    ELSE IF has_drawing_or_image_xml(para) THEN <<SubInTextNodes(para, FALSE)>>
    ELSE IF SubDecoration(PyStrip(SubMarkers(get_paragraph_text(para), FALSE))) = <<>>
    THEN <<>>
    ELSE <<SubInTextNodes(para, FALSE)>>

\* XMLWordEngineAdapter.clean_unused_markers (the header and footer parts
\* are files of their own, outside the tree)
clean_unused_markers(kids) ==
    remove_all_markers_from_tables(
        Flatten([k \in 1..Len(kids) |->
                    IF kids[k].tag = "p" THEN CleanMarkersInParagraph(kids[k]) ELSE <<kids[k]>>]))

\* text.replace(NBSP, '')
WithoutNbsp(text) == SelectSeq(text, LAMBDA c : c # NBSP)

\* clean_empty_paragraphs: is the top-level paragraph put on paras_to_remove
IsRemovedAsEmpty(para) ==
    /\ PyStrip(WithoutNbsp(get_paragraph_text(para))) = <<>>
    /\ ~(\E i \in 1..Len(get_paragraph_text(para)) : get_paragraph_text(para)[i] = NBSP)
    /\ para.drawing = 0
    /\ ~paragraph_has_section_break_xml(para)

\* XMLWordEngineAdapter.clean_empty_paragraphs
clean_empty_paragraphs(kids) ==
    Flatten([k \in 1..Len(kids) |->
                IF kids[k].tag = "p" /\ IsRemovedAsEmpty(kids[k]) THEN <<>> ELSE <<kids[k]>>])

(***************************************************************************)
(* The engine as a state machine: a document is loaded and the operations  *)
(* of XMLWordEngineAdapter run on it, in any order.                        *)
(***************************************************************************)
MaxOps == 2

MarkerM == <<"<", "<", "m", ">", ">">>
MarkerN == <<"<", "<", "n", ">", ">">>
Marker1 == <<"<", "<", "1", ">", ">">>
Marker2 == <<"<", "<", "2", ">", ">">>
AnexoTitle ==
    <<"A", "n", "e", "x", "o", " ", "I", "V", " ", "-", " ", "D", "i", "s", "c", "r", "e", "p",
      "a", "n", "c", "i", "a", "s", " ", "f", "o", "r", "m", "a", "l", "e", "s">>

\* a paragraph of the template whose runs hold the pieces
ParaOf(id, pieces) == Para(id, [k \in 1..Len(pieces) |-> TemplateNode(pieces[k])])

\* the graphical or sectional content a paragraph may carry
Carrying(para, what) ==
    CASE what = "nextPage" -> [para EXCEPT !.sectPr = "nextPage"]
      [] what = "continuous" -> [para EXCEPT !.sectPr = "continuous"]
      [] what = "drawing" -> [para EXCEPT !.drawing = 1]
      [] what = "pict" -> [para EXCEPT !.pict = 1]
      [] what = "vml" -> [para EXCEPT !.vml = 1]
      [] what = "break" -> [para EXCEPT !.brk = 1]
      [] what = "nothing" -> para

Contents == {"nextPage", "continuous", "drawing", "pict", "vml"}

\* first paragraphs: a marker cut over up to MaxNodes text nodes, whole
\* texts in paragraphs that carry a section or graphical content, a
\* paragraph of two markers, and '{salto}' twice in a text node and cut
\* over two text nodes
EngineFirstParagraphs ==
    {ParaOf(1, pieces) : pieces \in UNION {Splits(t, n) : t \in {MarkerM, <<"x">> \o MarkerM},
                                                           n \in 1..MaxNodes}}
    \cup {Carrying(ParaOf(1, pieces), what) :
             pieces \in {<<>>, <<MarkerM>>, <<<<"x">> \o MarkerM>>, <<<<NBSP>>>>}, what \in Contents}
    \cup {ParaOf(1, <<>>), ParaOf(1, <<<<NBSP>>>>), ParaOf(1, <<AnexoTitle>>),
          ParaOf(1, <<MarkerM, MarkerN>>),
          ParaOf(1, <<<<"a">> \o Salto \o <<"b">> \o Salto>>),
          ParaOf(1, <<<<"a", " ">> \o Salto \o <<"b">>>>),
          ParaOf(1, <<<<"a", "{", "s">>, <<"a", "l", "t", "o", "}", "b">>>>),
          Carrying(Carrying(ParaOf(1, <<AnexoTitle>>), "drawing"), "nextPage"),
          ParaOf(1, <<<<"a">> \o Salto \o <<"b">>>>)}

EngineTails ==
    {<<>>, <<SectPrElem>>, <<ParaOf(2, <<<<"y">>>>), SectPrElem>>,
     <<Tbl(<<ParaOf(2, <<MarkerOpen, <<"m">> \o MarkerClose>>)>>)>>,
     <<Tbl(<<Carrying(ParaOf(2, <<MarkerM>>), "drawing")>>), ParaOf(3, <<MarkerM>>)>>}

\* documents with a table of contents: an optional introduction, the index
\* with one entry, an optional preface and the chapter the entry refers to
TocDocument(intro, entry, preface, chapter) ==
    (IF intro THEN <<ParaOf(1, <<<<"i">>>>)>> ELSE <<>>)
    \o <<ParaOf(2, <<IndiceStart>>), ParaOf(3, entry), ParaOf(4, <<IndiceEnd>>)>>
    \o (IF preface = "none" THEN <<>> ELSE <<Carrying(ParaOf(5, <<<<"p">>>>), preface)>>)
    \o <<Carrying(ParaOf(6, <<Marker1 \o <<" ", "C">>>>), chapter)>>

TocDocuments ==
    {TocDocument(intro, entry, preface, chapter) :
        intro \in BOOLEAN,
        entry \in {<<<<"T", " ">> \o Marker1>>, <<<<"T", " ", "<">>, <<"<", "1", ">", ">">>>>,
                   <<<<"U", " ">> \o Marker2>>},
        preface \in {"none", "nothing", "break"},
        chapter \in {"nothing", "drawing"}}

\* an index whose entry holds no numeric marker, and a chapter whose numeric
\* marker is cut over two text nodes
TocOddDocuments ==
    {<<ParaOf(2, <<IndiceStart>>), ParaOf(3, <<<<"T">>>>), ParaOf(4, <<IndiceEnd>>),
       ParaOf(6, <<Marker1 \o <<" ", "C">>>>)>>,
     <<ParaOf(2, <<IndiceStart>>), ParaOf(3, <<<<"T", " ">> \o Marker1>>), ParaOf(4, <<IndiceEnd>>),
       ParaOf(5, <<<<"p">>>>), ParaOf(6, <<<<"<", "<", "1">>, <<">", ">", " ", "C">>>>)>>}

EngineDocuments ==
    {<<first>> \o tail : first \in EngineFirstParagraphs, tail \in EngineTails}
        \cup TocDocuments \cup TocOddDocuments

\* contexts of replace_variables
EngineContexts ==
    {<<Entry(MarkerM, PyStr(<<"v">>))>>, <<Entry(MarkerM, PyNone), Entry(MarkerN, PyStr(<<"w">>))>>}

\* tables of insert_tables: one column, one row
OneCellTable ==
    [columns |-> <<[id |-> "a", header |-> <<"H">>]>>,
     rows |-> <<("a" :> PyStr(<<"v">>))>>,
     footer_rows |-> <<>>]

TableEntry(marker) == [marker |-> marker, table |-> OneCellTable]

EngineTables ==
    {<<TableEntry(MarkerM)>>, <<TableEntry(MarkerN)>>,
     <<TableEntry(MarkerN), TableEntry(MarkerM)>>, <<TableEntry(MarkerM), TableEntry(MarkerN)>>}

\* fragment files of insert_conditional_blocks
MissingFile == BlockFile(FALSE, TRUE, TRUE, <<>>)
UnreadableFile == BlockFile(TRUE, FALSE, TRUE, <<>>)
NoBodyFile == BlockFile(TRUE, TRUE, FALSE, <<>>)
PlainFragment == BlockFile(TRUE, TRUE, TRUE, <<ParaOf(0, <<<<"f">>>>)>>)
BodySectionFragment == BlockFile(TRUE, TRUE, TRUE, <<ParaOf(0, <<<<"f">>>>), SectPrElem>>)
SectionsFragment ==
    BlockFile(TRUE, TRUE, TRUE,
              <<Carrying(ParaOf(0, <<<<"f">>>>), "nextPage"),
                Tbl(<<Carrying(ParaOf(0, <<<<"g">>>>), "continuous")>>)>>)

DocEntry(marker, file) == [marker |-> marker, file |-> file]

EngineBlocks ==
    {<<DocEntry(MarkerM, f)>> :
        f \in {MissingFile, UnreadableFile, NoBodyFile, PlainFragment, BodySectionFragment,
               SectionsFragment}}
    \cup {<<DocEntry(MarkerN, PlainFragment)>>,
          <<DocEntry(MarkerN, PlainFragment), DocEntry(MarkerM, PlainFragment)>>,
          <<DocEntry(MarkerM, MissingFile), DocEntry(MarkerM, PlainFragment)>>,
          <<DocEntry(MarkerM, UnreadableFile), DocEntry(MarkerM, PlainFragment)>>}

\* XMLWordEngineAdapter.__init__: the document is parsed and the drawings
\* and sections it holds are counted
InitEngine ==
    /\ CondIdle /\ context = [n \in {} |-> PyNone]
    /\ BlocksIdle /\ BuildIdle /\ DocIdle /\ RenderIdle /\ TablesIdle /\ LogicIdle /\ TempIdle
    /\ root \in EngineDocuments
    /\ root_before = root
    /\ eng_op = ""
    /\ eng_arg = <<>>
    /\ eng_steps = 0
    /\ initial_drawings = CountDrawings(root)
    /\ initial_sections = CountSections(root)
    /\ eng_raised = ""

\* what one operation of the engine leaves: op(arg) made new_root of the
\* tree and raised
EngineStep(op, arg, new_root, raised) ==
    /\ root' = new_root
    /\ root_before' = root
    /\ eng_op' = op
    /\ eng_arg' = arg
    /\ eng_steps' = eng_steps + 1
    /\ eng_raised' = raised
    /\ UNCHANGED <<initial_drawings, initial_sections>>
    /\ UNCHANGED <<rnd_vars, tab_vars, lgc_vars, tmp_vars, cond_vars, blk_vars, bld_vars, doc_vars>>

ReplaceVariables ==
    \E entries \in EngineContexts :
        /\ eng_steps < MaxOps
        /\ EngineStep("replace_variables", entries, replace_variables(root, entries), "")

InsertTables ==
    \E tables_data \in EngineTables :
        /\ eng_steps < MaxOps
        /\ EngineStep("insert_tables", tables_data, insert_tables(root, tables_data), "")

InsertConditionalBlocks ==
    \E docs_to_insert \in EngineBlocks :
        /\ eng_steps < MaxOps
        /\ EngineStep("insert_conditional_blocks", docs_to_insert,
                      insert_conditional_blocks(root, docs_to_insert).kids,
                      insert_conditional_blocks(root, docs_to_insert).raised)

RemoveDiscrepanciasFormalesSection ==
    /\ eng_steps < MaxOps
    /\ EngineStep("remove_discrepancias_formales_section", <<>>,
                  remove_discrepancias_formales_section(root), "")

ProcessSaltoMarkers ==
    /\ eng_steps < MaxOps
    /\ EngineStep("process_salto_markers", <<>>, process_salto_markers(root), "")

ProcessTableOfContents ==
    /\ eng_steps < MaxOps
    /\ EngineStep("process_table_of_contents", <<>>, process_table_of_contents(root), "")

CleanUnusedMarkers ==
    /\ eng_steps < MaxOps
    /\ EngineStep("clean_unused_markers", <<>>, clean_unused_markers(root), "")

CleanEmptyParagraphs ==
    /\ eng_steps < MaxOps
    /\ EngineStep("clean_empty_paragraphs", <<>>, clean_empty_paragraphs(root), "")

NextEngine ==
    \/ ReplaceVariables
    \/ InsertTables
    \/ InsertConditionalBlocks
    \/ RemoveDiscrepanciasFormalesSection
    \/ ProcessSaltoMarkers
    \/ ProcessTableOfContents
    \/ CleanUnusedMarkers
    \/ CleanEmptyParagraphs

SpecEngine == InitEngine /\ [][NextEngine]_vars

(***************************************************************************)
(* Properties of the engine operations.                                    *)
(***************************************************************************)
\* the paragraphs a splice or a table insertion created: those of the
\* template are numbered from 1
IsInserted(para) == para.id = 0

\* C11: after _insert_conditional_block the host holds as many
\* section-properties elements as before the call, and no element inserted
\* at the splice point is or contains a section-properties element
C11_SpliceKeepsSections ==
    eng_op = "insert_conditional_blocks" /\ eng_raised = ""
    => /\ CountSections(root) = CountSections(root_before)
       /\ \A k \in 1..Len(AllParagraphs(root)) :
             IsInserted(AllParagraphs(root)[k]) => AllParagraphs(root)[k].sectPr = "none"

\* a can be had from b by deleting characters
RECURSIVE IsSubsequence(_, _)
IsSubsequence(a, b) ==
    \/ a = <<>>
    \/ /\ b # <<>>
       /\ IF Head(a) = Head(b) THEN IsSubsequence(Tail(a), Tail(b)) ELSE IsSubsequence(a, Tail(b))

\* the paragraph carries section properties or graphical content
IsProtected(para) ==
    para.sectPr # "none" \/ para.drawing > 0 \/ para.pict > 0 \/ para.vml > 0

\* q is the paragraph p, with at most some of its text removed
StillPresentAs(q, p) ==
    /\ q.id = p.id
    /\ q.sectPr = p.sectPr /\ q.drawing = p.drawing /\ q.pict = p.pict /\ q.vml = p.vml
    /\ IsSubsequence(get_paragraph_text(q), get_paragraph_text(p))

\* C12: clean_unused_markers and clean_empty_paragraphs never delete a
\* paragraph that carries section properties or graphical content (drawing,
\* picture, VML shape or image data): it is still in the document after the
\* pass, with at most its marker text removed
C12_CleanupKeepsProtected ==
    eng_op \in {"clean_unused_markers", "clean_empty_paragraphs"}
    => \A k \in 1..Len(AllParagraphs(root_before)) :
          IsProtected(AllParagraphs(root_before)[k])
          => \E j \in 1..Len(AllParagraphs(root)) :
                StillPresentAs(AllParagraphs(root)[j], AllParagraphs(root_before)[k])

\* C13: after clean_unused_markers no paragraph of the document (top-level,
\* in a table cell, carrying section properties or graphics) has a
\* concatenated text that contains a <<...>> marker, whether the marker sat
\* in one text node or was split over several
C13_NoMarkerLeft ==
    eng_op = "clean_unused_markers"
    => \A k \in 1..Len(AllParagraphs(root)) :
          ~HasMarker(get_paragraph_text(AllParagraphs(root)[k]), FALSE)

\* C14: after any sequence of engine operations the document holds at least
\* as many drawing elements and at least as many section-properties elements
\* as were counted when the template was loaded
C14_ImagesAndSectionsPreserved ==
    /\ CountDrawings(root) >= initial_drawings
    /\ CountSections(root) >= initial_sections

\* the position among the top-level paragraphs tp of kids of the paragraph
\* numbered id (0: it is not there)
PositionOfId(kids, tp, id) ==
    IF \E j \in 1..Len(tp) : kids[tp[j]].id = id
    THEN CHOOSE j \in 1..Len(tp) : kids[tp[j]].id = id
    ELSE 0

EndsWith(text, suffix) ==
    /\ Len(text) >= Len(suffix)
    /\ SubSeq(text, Len(text) - Len(suffix) + 1, Len(text)) = suffix

\* 1 + the page breaks of the document from its start up to the top-level
\* paragraph at position m
PageOfPosition(kids, tp, m) ==
    1 + Cardinality({n \in 1..m : has_page_break_xml(kids[tp[n]])})

\* the index entry `entry` of the document `before`, whose delimiters are at
\* `bounds`, reads in the document `after` the page its marker stands on
EntryReadsItsPage(before, tpb, bounds, entry, after, tpa) ==
    MarkerPosition(before, tpb, entry.marker, bounds.end) # 0
    => /\ PositionOfId(after, tpa, before[tpb[entry.para]].id) # 0
       /\ EndsWith(get_paragraph_text(
                       after[tpa[PositionOfId(after, tpa, before[tpb[entry.para]].id)]]),
                   <<".", " ">>
                       \o NatText(PageOfPosition(after, tpa,
                              PositionOfId(after, tpa,
                                  before[tpb[MarkerPosition(before, tpb, entry.marker,
                                                            bounds.end)]].id))))

EntriesReadTheirPages(before, tpb, bounds, after) ==
    bounds.start # 0 /\ bounds.end # 0
    => \A k \in 1..Len(TocEntries(before, tpb, bounds.start + 1, bounds.end)) :
          EntryReadsItsPage(before, tpb, bounds,
                            TocEntries(before, tpb, bounds.start + 1, bounds.end)[k],
                            after, TopParagraphs(after))

\* C15: when process_table_of_contents returns, the page number written
\* into each retained index entry is 1 + the number of page breaks that
\* precede the entry's numeric marker, counted from the start of the
\* document up to the marker's paragraph
C15_TocPageCountsBreaks ==
    eng_op = "process_table_of_contents"
    => EntriesReadTheirPages(root_before, TopParagraphs(root_before),
                             TocScan(root_before, TopParagraphs(root_before), 1, 0), root)

\* no paragraph of the tree holds the marker in its text
MarkerInNoParagraph(kids, marker) ==
    \A k \in 1..Len(AllParagraphs(kids)) :
        ~Contains(get_paragraph_text(AllParagraphs(kids)[k]), marker)

\* the entry of insert_conditional_blocks refers to a file that does not
\* exist, or to a marker no paragraph holds
IsUnresolvedBlock(kids, entry) ==
    \/ ~entry.file.exists
    \/ block_file_error(entry.file) = "" /\ MarkerInNoParagraph(kids, entry.marker)

BreakPrecedes(kids, tp, pos) ==
    /\ pos # 0
    /\ \/ has_page_break_xml(kids[tp[pos]])
       \/ pos > 1 /\ has_page_break_xml(kids[tp[pos - 1]])

MarkersHaveBreaks(before, tpb, bounds, after) ==
    bounds.start # 0 /\ bounds.end # 0
    => \A k \in 1..Len(TocEntries(before, tpb, bounds.start + 1, bounds.end)) :
          LET m == MarkerPosition(before, tpb,
                       TocEntries(before, tpb, bounds.start + 1, bounds.end)[k].marker,
                       bounds.end)
          IN  m # 0 => BreakPrecedes(after, TopParagraphs(after),
                                     PositionOfId(after, TopParagraphs(after), before[tpb[m]].id))

\* C24: when process_table_of_contents returns, every numeric marker that an
\* index entry referred to and that was found after the index has a page
\* break in its own paragraph or in the paragraph immediately before it in
\* the resulting document
C24_BreakBeforeEachMarker ==
    eng_op = "process_table_of_contents"
    => MarkersHaveBreaks(root_before, TopParagraphs(root_before),
                         TocScan(root_before, TopParagraphs(root_before), 1, 0), root)

HoldsTocMarker(text) ==
    HasMarker(text, TRUE) \/ Contains(text, IndiceStart) \/ Contains(text, IndiceEnd)

DanglingEntriesGone(before, tpb, bounds, after) ==
    \A k \in 1..Len(TocEntries(before, tpb, bounds.start + 1, bounds.end)) :
        LET entry == TocEntries(before, tpb, bounds.start + 1, bounds.end)[k] IN
        MarkerPosition(before, tpb, entry.marker, bounds.end) = 0
            => PositionOfId(after, TopParagraphs(after), before[tpb[entry.para]].id) = 0

\* C25: after process_table_of_contents on a document that holds an index
\* between '<<Indice>>' and '<<fin Indice>>', no paragraph's text holds a
\* numeric marker or one of the two delimiters, and every index entry whose
\* numeric marker occurs nowhere after the index is gone from the index
C25_TocMarkersGone ==
    (/\ eng_op = "process_table_of_contents"
     /\ TocScan(root_before, TopParagraphs(root_before), 1, 0).start # 0
     /\ TocScan(root_before, TopParagraphs(root_before), 1, 0).end # 0)
    => /\ \A k \in 1..Len(AllParagraphs(root)) :
              ~HoldsTocMarker(get_paragraph_text(AllParagraphs(root)[k]))
       /\ DanglingEntriesGone(root_before, TopParagraphs(root_before),
                              TocScan(root_before, TopParagraphs(root_before), 1, 0), root)

\* how many times pat occurs in text, counted from the left without overlap
RECURSIVE CountOccurrences(_, _)
CountOccurrences(text, pat) ==
    IF ~Contains(text, pat) THEN 0
    ELSE 1 + CountOccurrences(SubSeq(text, IndexOf(text, pat) + Len(pat), Len(text)), pat)

\* the paragraph `after` is the paragraph `before` with a page break in the
\* place of every '{salto}'
SaltosBecameBreaks(before, after) ==
    /\ get_paragraph_text(after) = ReplaceAll(get_paragraph_text(before), Salto, <<>>)
    /\ after.brk = before.brk + CountOccurrences(get_paragraph_text(before), Salto)

\* C26: after process_salto_markers no paragraph's text holds '{salto}';
\* every occurrence has become a page break, the text before and after it
\* kept in order; the call raises nothing
C26_SaltosProcessed ==
    eng_op = "process_salto_markers"
    => /\ eng_raised = ""
       /\ Len(AllParagraphs(root)) = Len(AllParagraphs(root_before))
       /\ \A k \in 1..Len(AllParagraphs(root)) :
              /\ ~Contains(get_paragraph_text(AllParagraphs(root)[k]), Salto)
              /\ SaltosBecameBreaks(AllParagraphs(root_before)[k], AllParagraphs(root)[k])

\* ---- xml:space
\* the text nodes of every paragraph below kids
TextNodesOf(kids) ==
    UNION {{AllParagraphs(kids)[k].texts[t] : t \in 1..Len(AllParagraphs(kids)[k].texts)} :
              k \in 1..Len(AllParagraphs(kids))}

\* the text needs xml:space="preserve" (needs_preserve of
\* _set_text_with_preserve)
NeedsPreserve(text) ==
    text # <<>> /\ (text[1] = " " \/ text[Len(text)] = " "
                    \/ \E i \in 1..Len(text) : text[i] \in {"\n", "\t"})

\* every text node the last operation wrote that needs the flag carries it
RewrittenNodesFlagged ==
    \A node \in TextNodesOf(root) \ TextNodesOf(root_before) :
        NeedsPreserve(node.text) => node.preserve

\* C27: after an operation of the engine that rewrites text nodes, every
\* rewritten text node whose text starts or ends with a space or holds a
\* newline or a tab carries xml:space="preserve"
C27_PreserveFlagKept ==
    eng_op \in {"replace_variables", "process_salto_markers", "process_table_of_contents",
                "clean_unused_markers"}
    => RewrittenNodesFlagged

\* ---- table insertion
\* the paragraph of the template numbered id, wherever it is
ParagraphsOfId(kids, id) == SelectSeq(AllParagraphs(kids), LAMBDA para : para.id = id)

\* some container below kids holds, in consecutive order, the paragraph
\* numbered id, a table and a spacer paragraph
RECURSIVE TableFollows(_, _)
TableFollows(kids, id) ==
    \/ \E k \in 1..(Len(kids) - 2) :
           /\ kids[k].tag = "p" /\ kids[k].id = id
           /\ kids[k + 1].tag = "tbl"
           /\ kids[k + 2] = create_spacing_paragraph
    \/ \E k \in 1..Len(kids) : kids[k].tag = "tbl" /\ TableFollows(kids[k].kids, id)

\* the first paragraph whose text holds the marker (0: none holds it)
FirstHolder(kids, marker) ==
    LET ps == AllParagraphs(kids)
        H == {k \in 1..Len(ps) : Contains(get_paragraph_text(ps[k]), marker)}
    IN  IF H = {} THEN 0 ELSE ps[CHOOSE k \in H : \A j \in H : k <= j].id

CountSpacers(kids) ==
    Len(SelectSeq(AllParagraphs(kids), LAMBDA para : para = create_spacing_paragraph))

\* the paragraphs of the template that a table and its spacer follow
TableParagraphs(kids) ==
    {id \in {AllParagraphs(kids)[k].id : k \in 1..Len(AllParagraphs(kids))} :
        id > 0 /\ TableFollows(kids, id)}

CleanupPhases == {"process_table_of_contents", "clean_unused_markers", "clean_empty_paragraphs"}

\* C23: after _insert_table_at_marker for a marker found in paragraph P, the
\* parent of P holds P, the table and a spacer whose text is a non-breaking
\* space, in consecutive order; P no longer holds the marker and holds a
\* non-breaking space if it was emptied; P and the spacer are still in the
\* document after table-of-contents processing, clean_unused_markers and
\* clean_empty_paragraphs.
C23_TableParagraphKept ==
    /\ (eng_op = "insert_tables" /\ Len(eng_arg) = 1
            /\ FirstHolder(root_before, eng_arg[1].marker) > 0)
        => LET id == FirstHolder(root_before, eng_arg[1].marker)
               P == ParagraphsOfId(root, id)
           IN  /\ TableFollows(root, id)
               /\ Len(P) = 1
               /\ ~Contains(get_paragraph_text(P[1]), eng_arg[1].marker)
               /\ PyStrip(get_paragraph_text(P[1])) = <<>>
                      => get_paragraph_text(P[1]) = <<NBSP>>
    /\ eng_op \in CleanupPhases
        => /\ \A id \in TableParagraphs(root_before) : Len(ParagraphsOfId(root, id)) = 1
           /\ CountSpacers(root) >= CountSpacers(root_before)

(***************************************************************************)
(* render_word_report: one render of a template, through docxtpl or        *)
(* through the XML engine.  rnd_env is what the render is called with:     *)
(* template: "missing" | "corrupt" | "readable"; document: the body of the *)
(* template; context: the entries of the context; tables: the tables built *)
(* from _cfg_tab and _table_inputs (<<>> when either is empty);            *)
(* docs_to_insert; discrepancias: whether the condition input              *)
(* desarrollo_discrepancias_formales is "Sí"; writable: whether the output *)
(* path can be written.                                                    *)
(***************************************************************************)
\* the methods _render_with_xml_engine calls on the engine, in the order of
\* its statements
XmlPhasesMarkersFirst ==
    <<"replace_variables", "insert_tables", "insert_conditional_blocks",
      "remove_discrepancias_formales_section", "process_salto_markers",
      "clean_unused_markers", "process_table_of_contents", "clean_empty_paragraphs",
      "save">>
XmlPhases ==
    <<"replace_variables", "insert_tables", "insert_conditional_blocks",
      "remove_discrepancias_formales_section", "process_salto_markers",
      "process_table_of_contents", "clean_unused_markers", "clean_empty_paragraphs",
      "save">>

\* the statement that follows the call of phase
PhaseAfter(phase) ==
    XmlPhases[(CHOOSE k \in 1..Len(XmlPhases) : XmlPhases[k] = phase) + 1]

RenderDocuments ==
    {TocDocument(TRUE, <<<<"T", " ">> \o Marker1>>, "nothing", "nothing"),
     <<ParaOf(1, <<MarkerM>>), SectPrElem>>,
     <<ParaOf(1, <<<<"x", "<">>, <<"<", "m", ">", ">">>>>), ParaOf(2, <<>>)>>,
     <<ParaOf(1, <<AnexoTitle>>), ParaOf(2, <<<<"a">> \o Salto>>), ParaOf(3, <<MarkerM>>)>>}

RenderContextsOf(xml) ==
    {<<Entry(UseXmlEngineKey, PyBool(xml))>>,
     <<Entry(UseXmlEngineKey, PyBool(xml)), Entry(MarkerN, PyStr(<<"v">>))>>}

RenderEnvs ==
    [template : {"missing", "corrupt", "readable"},
     document : RenderDocuments,
     context : RenderContextsOf(TRUE) \cup RenderContextsOf(FALSE),
     tables : {<<>>, <<TableEntry(MarkerM)>>},
     docs_to_insert : {<<>>, <<DocEntry(MarkerM, PlainFragment)>>,
                       <<DocEntry(MarkerM, UnreadableFile)>>},
     discrepancias : BOOLEAN,
     writable : BOOLEAN]

InitRender ==
    /\ CondIdle /\ context = [n \in {} |-> PyNone]
    /\ BlocksIdle /\ BuildIdle /\ DocIdle /\ EngineIdle /\ TablesIdle /\ LogicIdle /\ TempIdle
    /\ rnd_env \in RenderEnvs
    /\ rnd_pc = "call"
    /\ rnd_trace = <<>>
    /\ rnd_result = ""
    /\ rnd_output = "absent"

\* render_word_report returns value
RenderReturns(value) ==
    /\ rnd_pc' = "returned"
    /\ rnd_result' = value

\* render_word_report up to the choice of the engine
RenderWordReport ==
    /\ rnd_pc = "call"
    /\ IF rnd_env.template = "missing" THEN RenderReturns("None")
       ELSE /\ rnd_pc' = IF use_xml_engine(rnd_env.context) THEN "xml" ELSE "jinja2"
            /\ UNCHANGED rnd_result
    /\ UNCHANGED <<rnd_env, rnd_trace, rnd_output>>
    /\ UNCHANGED <<eng_vars, tab_vars, lgc_vars, tmp_vars, cond_vars, blk_vars, bld_vars, doc_vars>>

\* _render_with_jinja2: DocxTemplate, render, save; what it raises is
\* caught by render_word_report
RenderWithJinja2 ==
    /\ rnd_pc = "jinja2"
    /\ IF rnd_env.template = "readable" /\ rnd_env.writable
       THEN RenderReturns("path") /\ rnd_output' = "document"
       ELSE RenderReturns("None") /\ UNCHANGED rnd_output
    /\ UNCHANGED <<rnd_env, rnd_trace>>
    /\ UNCHANGED <<eng_vars, tab_vars, lgc_vars, tmp_vars, cond_vars, blk_vars, bld_vars, doc_vars>>

\* _render_with_xml_engine: engine = XMLWordEngineAdapter(template_path)
XmlEngineLoad ==
    /\ rnd_pc = "xml"
    /\ IF rnd_env.template = "readable"
       THEN /\ rnd_pc' = XmlPhases[1]
            /\ root' = rnd_env.document
            /\ root_before' = rnd_env.document
            /\ initial_drawings' = CountDrawings(rnd_env.document)
            /\ initial_sections' = CountSections(rnd_env.document)
            /\ UNCHANGED <<rnd_result, eng_op, eng_arg, eng_steps, eng_raised>>
       ELSE /\ RenderReturns("None")
            /\ UNCHANGED eng_vars
    /\ UNCHANGED <<rnd_env, rnd_trace, rnd_output>>
    /\ UNCHANGED <<tab_vars, lgc_vars, tmp_vars, cond_vars, blk_vars, bld_vars, doc_vars>>

\* one statement of _render_with_xml_engine: the engine method `phase` is
\* called when `called`, leaves new_root and raises `raised`, which the
\* except clause turns into the result None
XmlPhase(phase, called, arg, new_root, raised) ==
    /\ rnd_trace' = IF called THEN Append(rnd_trace, phase) ELSE rnd_trace
    /\ IF called
       THEN /\ root' = new_root
            /\ root_before' = root
            /\ eng_op' = phase
            /\ eng_arg' = arg
            /\ eng_steps' = eng_steps + 1
            /\ eng_raised' = raised
            /\ UNCHANGED <<initial_drawings, initial_sections>>
       ELSE UNCHANGED eng_vars
    /\ IF called /\ raised # ""
       THEN RenderReturns("None")
       ELSE rnd_pc' = PhaseAfter(phase) /\ UNCHANGED rnd_result
    /\ UNCHANGED <<rnd_env, rnd_output>>
    /\ UNCHANGED <<tab_vars, lgc_vars, tmp_vars, cond_vars, blk_vars, bld_vars, doc_vars>>

XmlReplaceVariables ==
    /\ rnd_pc = "replace_variables"
    /\ XmlPhase("replace_variables", TRUE, rnd_env.context,
                replace_variables(root, rnd_env.context), "")

XmlInsertTables ==
    /\ rnd_pc = "insert_tables"
    /\ XmlPhase("insert_tables", rnd_env.tables # <<>>, rnd_env.tables,
                insert_tables(root, rnd_env.tables), "")

XmlInsertConditionalBlocks ==
    /\ rnd_pc = "insert_conditional_blocks"
    /\ XmlPhase("insert_conditional_blocks", rnd_env.docs_to_insert # <<>>,
                rnd_env.docs_to_insert,
                insert_conditional_blocks(root, rnd_env.docs_to_insert).kids,
                insert_conditional_blocks(root, rnd_env.docs_to_insert).raised)

XmlRemoveDiscrepancias ==
    /\ rnd_pc = "remove_discrepancias_formales_section"
    /\ XmlPhase("remove_discrepancias_formales_section", ~rnd_env.discrepancias, <<>>,
                remove_discrepancias_formales_section(root), "")

XmlProcessSaltoMarkers ==
    /\ rnd_pc = "process_salto_markers"
    /\ XmlPhase("process_salto_markers", TRUE, <<>>, process_salto_markers(root), "")

XmlProcessTableOfContents ==
    /\ rnd_pc = "process_table_of_contents"
    /\ XmlPhase("process_table_of_contents", TRUE, <<>>, process_table_of_contents(root), "")

XmlCleanUnusedMarkers ==
    /\ rnd_pc = "clean_unused_markers"
    /\ XmlPhase("clean_unused_markers", TRUE, <<>>, clean_unused_markers(root), "")

\* clean_empty_paragraphs and the three methods after it, which do nothing
XmlCleanEmptyParagraphs ==
    /\ rnd_pc = "clean_empty_paragraphs"
    /\ XmlPhase("clean_empty_paragraphs", TRUE, <<>>, clean_empty_paragraphs(root), "")

\* engine.save(output_path): XMLWordEngineAdapter has no method save, the
\* call raises AttributeError and nothing is written
XmlSave ==
    /\ rnd_pc = "save"
    /\ rnd_trace' = Append(rnd_trace, "save")
    /\ eng_raised' = "AttributeError"
    /\ RenderReturns("None")
    /\ UNCHANGED <<rnd_env, rnd_output>>
    /\ UNCHANGED <<root, root_before, eng_op, eng_arg, eng_steps, initial_drawings,
                   initial_sections>>
    /\ UNCHANGED <<tab_vars, lgc_vars, tmp_vars, cond_vars, blk_vars, bld_vars, doc_vars>>

NextRender ==
    \/ RenderWordReport
    \/ RenderWithJinja2
    \/ XmlEngineLoad
    \/ XmlReplaceVariables
    \/ XmlInsertTables
    \/ XmlInsertConditionalBlocks
    \/ XmlRemoveDiscrepancias
    \/ XmlProcessSaltoMarkers
    \/ XmlProcessTableOfContents
    \/ XmlCleanUnusedMarkers
    \/ XmlCleanEmptyParagraphs
    \/ XmlSave

SpecRender == InitRender /\ [][NextRender]_vars

\* the exception the first unreadable fragment of docs_to_insert raises
block_file_error_in(docs_to_insert) ==
    IF \E k \in 1..Len(docs_to_insert) : block_file_error(docs_to_insert[k].file) # ""
    THEN "BadZipFile" ELSE ""

(***************************************************************************)
(* Properties of a render.                                                 *)
(***************************************************************************)
\* the place of phase in order (0: it is not listed)
PlaceIn(order, phase) ==
    IF \E k \in 1..Len(order) : order[k] = phase
    THEN CHOOSE k \in 1..Len(order) : order[k] = phase
    ELSE 0

\* the listed phases of trace ran in the relative order of `order`
RanInOrder(trace, order) ==
    \A i, j \in 1..Len(trace) :
        i < j /\ PlaceIn(order, trace[i]) # 0 /\ PlaceIn(order, trace[j]) # 0
        => PlaceIn(order, trace[i]) < PlaceIn(order, trace[j])

NothingAfterSave(trace) == \A i \in 1..Len(trace) : trace[i] = "save" => i = Len(trace)

\* variables replaced, tables inserted, fragments spliced, markers cleaned,
\* pagination resolved, whitespace cleaned, saved
MarkersThenPagination ==
    <<"replace_variables", "insert_tables", "insert_conditional_blocks", "clean_unused_markers",
      "process_table_of_contents", "clean_empty_paragraphs", "save">>

\* variables replaced, tables inserted, fragments spliced, pagination
\* resolved, markers cleaned, whitespace cleaned, saved
PaginationThenMarkers ==
    <<"replace_variables", "insert_tables", "insert_conditional_blocks",
      "process_table_of_contents", "clean_unused_markers", "clean_empty_paragraphs", "save">>

\* C16 as stated: in every XML-engine render the phases that run occur in
\* the order variables replaced, tables inserted, fragments spliced, markers
\* cleaned, pagination resolved, whitespace cleaned, saved, and none runs
\* after the save
C16_MarkersCleanedBeforePagination ==
    RanInOrder(rnd_trace, MarkersThenPagination) /\ NothingAfterSave(rnd_trace)

\* C16 amended: in every XML-engine render the phases that run occur in the
\* order variables replaced, tables inserted, fragments spliced, pagination
\* resolved, markers cleaned, whitespace cleaned, save called, and none runs
\* after the call of save
C16_PaginationBeforeMarkersCleaned ==
    RanInOrder(rnd_trace, PaginationThenMarkers) /\ NothingAfterSave(rnd_trace)

\* a render in which every phase ran
C16_Witness ==
    /\ rnd_pc = "returned"
    /\ \A k \in 1..Len(PaginationThenMarkers) :
          \E i \in 1..Len(rnd_trace) : rnd_trace[i] = PaginationThenMarkers[k]

\* C17: render_word_report returns the output path exactly when the
\* template could be loaded and the document was written to the path;
\* otherwise it returns None and leaves no output; a render through the XML
\* engine with a readable template and a writable output directory (and
\* fragments that can be read) returns the path
C17_PathIffWritten ==
    rnd_pc = "returned"
    => /\ rnd_result \in {"path", "None"}
       /\ rnd_result = "path" <=> (rnd_env.template = "readable" /\ rnd_output = "document")
       /\ rnd_result = "None" => rnd_output = "absent"
       /\ use_xml_engine(rnd_env.context) /\ rnd_env.template = "readable" /\ rnd_env.writable
             /\ block_file_error_in(rnd_env.docs_to_insert) = ""
          => rnd_result = "path"

(***************************************************************************)
(* Tables: validate_table_data (tables_engine.py) and                      *)
(* TableBuilder.build_operaciones_vinculadas (tp_tables_engine.py).  A row *)
(* is a function from column ids to values.                                *)
(***************************************************************************)
MaxRows == 2

\* float(text) succeeds, for texts of digits, ".", "-", "+", white space
\* and letters other than those of inf, nan and exponents
FloatParses(text) ==
    LET t == PyStrip(text)
        u == IF t # <<>> /\ t[1] \in {"-", "+"} THEN Tail(t) ELSE t
    IN  /\ \E i \in 1..Len(u) : u[i] \in Digits
        /\ \A i \in 1..Len(u) : u[i] \in Digits \cup {"."}
        /\ Cardinality({i \in 1..Len(u) : u[i] = "."}) <= 1

\* what float(value) raises ("" when it returns)
float_error(value) ==
    CASE value.ty \in {"int", "bool"} -> ""
      [] value.ty = "str" -> IF FloatParses(value.s) THEN "" ELSE "ValueError"
      [] OTHER -> "TypeError"

\* schema_models.TableColumn
TableColumn(id, tipo, requerido, opciones) ==
    [id |-> id, tipo |-> tipo, requerido |-> requerido, opciones |-> opciones]

\* schema_models.TableDefinition
TableDefinition(columnas, min_filas, max_filas) ==
    [columnas |-> columnas, min_filas |-> min_filas, max_filas |-> max_filas]

\* an error message of the validation: what it is about
TableError(kind, row, column) == [kind |-> kind, row |-> row, column |-> column]

\* tables_engine.validate_column_value: the error, <<>> for None
validate_column_value(column, value, row_idx) ==
    CASE column.tipo = "numero" ->
            IF float_error(value) \in {"ValueError", "TypeError"}
            THEN <<TableError("numero", row_idx, column.id)>> ELSE <<>>
      [] column.tipo = "lista" ->
            IF Truthy(column.opciones) /\ ~PyIn(value, column.opciones)
            THEN <<TableError("lista", row_idx, column.id)>> ELSE <<>>
      [] OTHER -> <<>>

\* tables_engine.validate_table_row
validate_table_row(table_def, row, row_idx) ==
    Flatten([c \in 1..Len(table_def.columnas) |->
                IF table_def.columnas[c].id \notin DOMAIN row
                THEN (IF table_def.columnas[c].requerido
                      THEN <<TableError("falta", row_idx, table_def.columnas[c].id)>>
                      ELSE <<>>)
                ELSE validate_column_value(table_def.columnas[c],
                                           row[table_def.columnas[c].id], row_idx)])

\* table_def.max_filas and num_rows > table_def.max_filas
ExceedsMax(max_filas, num_rows) == Truthy(max_filas) /\ num_rows > max_filas.n

\* tables_engine.validate_table_data: [is_valid, errors]
validate_table_data(table_def, data) ==
    LET errors ==
            (IF Len(data) < table_def.min_filas THEN <<TableError("min", 0, "")>> ELSE <<>>)
            \o (IF ExceedsMax(table_def.max_filas, Len(data))
                THEN <<TableError("max", 0, "")>> ELSE <<>>)
            \o Flatten([r \in 1..Len(data) |-> validate_table_row(table_def, data[r], r)])
    IN  [is_valid |-> Len(errors) = 0, errors |-> errors]

\* row.get(col_id, default)
RowGetOr(row, col_id, default) == IF col_id \in DOMAIN row THEN row[col_id] ELSE default

\* any(str(row.get(col["id"], "")).strip() for col in cfg["columns"])
HasValueInSomeColumn(row, columns) ==
    \E c \in 1..Len(columns) :
        PyStrip(PyStrOf(RowGetOr(row, columns[c].id, PyStr(<<>>)))) # <<>>

\* row.get(col_id, 0) or 0
SumTerm(row, col_id) ==
    IF Truthy(RowGetOr(row, col_id, PyInt(0))) THEN RowGetOr(row, col_id, PyInt(0)) ELSE PyInt(0)

\* sum(row.get(col_id, 0) or 0 for row in rows): [raised, total]
RECURSIVE SumColumn(_, _, _, _)
SumColumn(rows, col_id, k, total) ==
    IF k > Len(rows) THEN [raised |-> "", total |-> total]
    ELSE IF SumTerm(rows[k], col_id).ty \notin {"int", "bool"}
    THEN [raised |-> "TypeError", total |-> total]
    ELSE SumColumn(rows, col_id, k + 1, total + SumTerm(rows[k], col_id).n)

LabelKey == "tipo_operacion"

\* the footer row of one footer_cfg, footer_rows being those before it
FooterRow(footer_cfg, rows, footer_rows) ==
    IF footer_cfg.row_type = "sum"
    THEN [c \in {LabelKey} \cup {footer_cfg.sum_columns[i] : i \in 1..Len(footer_cfg.sum_columns)} |->
             IF \E i \in 1..Len(footer_cfg.sum_columns) : footer_cfg.sum_columns[i] = c
             THEN PyInt(SumColumn(rows, c, 1, 0).total)
             ELSE PyStr(footer_cfg.label)]
    ELSE [c \in {LabelKey} \cup (IF footer_rows = <<>> THEN {}
                                ELSE {footer_cfg.sum_columns[i] : i \in 1..Len(footer_cfg.sum_columns)}) |->
             IF footer_rows # <<>> /\ \E i \in 1..Len(footer_cfg.sum_columns) : footer_cfg.sum_columns[i] = c
             THEN PyStr(<<>>)
             ELSE PyStr(footer_cfg.label)]

\* what the sums of one footer_cfg raise
FooterError(footer_cfg, rows) ==
    IF footer_cfg.row_type = "sum"
          /\ \E i \in 1..Len(footer_cfg.sum_columns) :
                SumColumn(rows, footer_cfg.sum_columns[i], 1, 0).raised # ""
    THEN "TypeError" ELSE ""

\* the loop over cfg["footer_rows"], from footer k on: [raised, footer_rows]
RECURSIVE FooterRows(_, _, _, _)
FooterRows(footers, rows, k, footer_rows) ==
    IF k > Len(footers) THEN [raised |-> "", footer_rows |-> footer_rows]
    ELSE IF footers[k].row_type \notin {"sum", "percent_of_total"}
    THEN FooterRows(footers, rows, k + 1, footer_rows)
    ELSE IF FooterError(footers[k], rows) # ""
    THEN [raised |-> FooterError(footers[k], rows), footer_rows |-> footer_rows]
    ELSE FooterRows(footers, rows, k + 1,
                    Append(footer_rows, FooterRow(footers[k], rows, footer_rows)))

\* the rows build_operaciones_vinculadas keeps: cfg.get("remove_empty_rows", False)
KeptRows(cfg, rows) ==
    IF Truthy(cfg.remove_empty_rows)
    THEN SelectSeq(rows, LAMBDA row : HasValueInSomeColumn(row, cfg.columns))
    ELSE rows

\* TableBuilder.build_operaciones_vinculadas: [raised, marker, columns,
\* rows, footer_rows]
build_operaciones_vinculadas(cfg, rows) ==
    [raised |-> FooterRows(cfg.footer_rows, KeptRows(cfg, rows), 1, <<>>).raised,
     marker |-> cfg.marker,
     columns |-> cfg.columns,
     rows |-> KeptRows(cfg, rows),
     footer_rows |-> FooterRows(cfg.footer_rows, KeptRows(cfg, rows), 1, <<>>).footer_rows]

(***************************************************************************)
(* The two table functions as a state machine: a call is set up (tab_pc    *)
(* names the function) and returns.                                        *)
(***************************************************************************)
RowValues == {PyNone, PyStr(<<>>), PyStr(<<" ">>), PyStr(<<"1">>), PyStr(<<"x">>), PyInt(1)}

\* rows over the columns a and b: b is given only together with a
TableRowPool ==
    {[c \in {} |-> PyNone]}
    \cup {("a" :> v) : v \in RowValues}
    \cup {("a" :> v) @@ ("b" :> w) : v \in {PyNone, PyInt(1)}, w \in {PyNone, PyStr(<<"v">>)}}

RowLists == UNION {[1..n -> TableRowPool] : n \in 0..MaxRows}

ColumnLists ==
    {<<>>,
     <<TableColumn("a", "numero", TRUE, PyNone)>>,
     <<TableColumn("a", "texto", FALSE, PyNone),
       TableColumn("b", "lista", FALSE, PyList(<<PyStr(<<"v">>)>>))>>}

TableDefinitions ==
    {TableDefinition(columnas, min_filas, max_filas) :
        columnas \in ColumnLists,
        min_filas \in 0..MaxInt,
        max_filas \in {PyNone} \cup {PyInt(n) : n \in 0..MaxInt}}

FooterConfigs ==
    {<<>>,
     <<[row_type |-> "sum", label |-> <<"T">>, sum_columns |-> <<"a">>]>>,
     <<[row_type |-> "sum", label |-> <<"T">>, sum_columns |-> <<"a">>],
       [row_type |-> "percent_of_total", label |-> <<"P">>, sum_columns |-> <<"a">>]>>}

\* tables_config["operaciones_vinculadas"]; remove_empty_rows is
\* PyBool(FALSE) also when the key is absent
OvConfigs ==
    {[marker |-> MarkerM, remove_empty_rows |-> r, columns |-> columns, footer_rows |-> footers] :
        r \in {PyBool(TRUE), PyBool(FALSE)},
        columns \in {<<[id |-> "a"]>>, <<[id |-> "a"], [id |-> "b"]>>},
        footers \in FooterConfigs}

InitTables ==
    /\ CondIdle /\ context = [n \in {} |-> PyNone]
    /\ BlocksIdle /\ BuildIdle /\ DocIdle /\ EngineIdle /\ RenderIdle /\ LogicIdle /\ TempIdle
    /\ tab_result = <<>>
    /\ ov_result = <<>>
    /\ \/ /\ tab_pc = "validate_table_data"
          /\ tab_def \in TableDefinitions
          /\ tab_data \in RowLists
          /\ ov_cfg = <<>>
          /\ ov_rows = <<>>
       \/ /\ tab_pc = "build_operaciones_vinculadas"
          /\ ov_cfg \in OvConfigs
          /\ ov_rows \in RowLists
          /\ tab_def = <<>>
          /\ tab_data = <<>>

ValidateTableData ==
    /\ tab_pc = "validate_table_data"
    /\ tab_pc' = "validated"
    /\ tab_result' = validate_table_data(tab_def, tab_data)
    /\ UNCHANGED <<tab_def, tab_data, ov_cfg, ov_rows, ov_result>>
    /\ UNCHANGED <<eng_vars, rnd_vars, lgc_vars, tmp_vars, cond_vars, blk_vars, bld_vars, doc_vars>>

BuildOperacionesVinculadas ==
    /\ tab_pc = "build_operaciones_vinculadas"
    /\ tab_pc' = "built"
    /\ ov_result' = build_operaciones_vinculadas(ov_cfg, ov_rows)
    /\ UNCHANGED <<tab_def, tab_data, tab_result, ov_cfg, ov_rows>>
    /\ UNCHANGED <<eng_vars, rnd_vars, lgc_vars, tmp_vars, cond_vars, blk_vars, bld_vars, doc_vars>>

NextTables == ValidateTableData \/ BuildOperacionesVinculadas

SpecTables == InitTables /\ [][NextTables]_vars

\* the errors of the given kind
ErrorsOfKind(errors, kind) == SelectSeq(errors, LAMBDA e : e.kind = kind)

\* C19: validate_table_data reports exactly one minimum-rows error when the
\* row count is below min_filas, exactly one maximum-rows error when a
\* max_filas is configured (any integer, 0 included) and the row count
\* exceeds it, no row-count error otherwise, and is_valid is true exactly
\* when the error list is empty
C19_RowCountBounds ==
    tab_pc = "validated"
    => /\ Len(ErrorsOfKind(tab_result.errors, "min"))
             = IF Len(tab_data) < tab_def.min_filas THEN 1 ELSE 0
       /\ Len(ErrorsOfKind(tab_result.errors, "max"))
             = IF tab_def.max_filas.ty # "none" /\ Len(tab_data) > tab_def.max_filas.n
               THEN 1 ELSE 0
       /\ tab_result.is_valid <=> tab_result.errors = <<>>

\* the value is blank: None, empty or white space only
IsBlankValue(v) == v.ty = "none" \/ (v.ty = "str" /\ PyStrip(v.s) = <<>>)

\* the row is blank (absent, None, empty or white space) in every column
IsBlankRow(row, columns) ==
    \A c \in 1..Len(columns) :
        columns[c].id \notin DOMAIN row \/ IsBlankValue(row[columns[c].id])

\* the sum of the column over the rows, a value that is absent or falsy
\* counting as 0
RECURSIVE ColumnTotal(_, _)
ColumnTotal(rows, col_id) ==
    IF rows = <<>> THEN 0
    ELSE (IF col_id \in DOMAIN Head(rows) /\ Head(rows)[col_id].ty \in {"int", "bool"}
          THEN Head(rows)[col_id].n ELSE 0)
         + ColumnTotal(Tail(rows), col_id)

\* C20: with remove_empty_rows configured build_operaciones_vinculadas drops
\* exactly the rows that are blank (absent, None, empty, white space only)
\* in every configured column and keeps the others in their order; without
\* it all rows are kept; the footer sums are taken over the rows kept
C20_BlankRowsDropped ==
    tab_pc = "built" /\ ov_result.raised = ""
    => /\ ov_result.rows
            = IF Truthy(ov_cfg.remove_empty_rows)
              THEN SelectSeq(ov_rows, LAMBDA row : ~IsBlankRow(row, ov_cfg.columns))
              ELSE ov_rows
       /\ \A k \in 1..Len(ov_cfg.footer_rows) :
             ov_cfg.footer_rows[k].row_type = "sum"
             => \A i \in 1..Len(ov_cfg.footer_rows[k].sum_columns) :
                   ov_result.footer_rows[k][ov_cfg.footer_rows[k].sum_columns[i]]
                      = PyInt(ColumnTotal(ov_result.rows, ov_cfg.footer_rows[k].sum_columns[i]))

(***************************************************************************)
(* reports/informe_auditoria/logic.py: apply_plural_markers.  The letter   *)
(* o with an acute accent is the character OACUTE.                         *)
(***************************************************************************)
OACUTE == "oacute"

\* the characters the pattern class \w does not match, among those texts hold
NonWordChars == {SPACE, "(", ")", "/", "\n", ".", ","}

IsWordAt(text, i) == i >= 1 /\ i <= Len(text) /\ text[i] \notin NonWordChars

\* the assertion \b at position i (between text[i-1] and text[i])
WordBoundaryAt(text, i) == IsWordAt(text, i - 1) # IsWordAt(text, i)

\* one (pattern, replacement) pair: the literal `pat`, with \b before it
\* (lead) and after it (trail)
Replacement(lead, pat, trail, repl) == [lead |-> lead, pat |-> pat, trail |-> trail, repl |-> repl]

PatternMatchesAt(text, r, i) ==
    /\ StartsWithAt(text, r.pat, i)
    /\ r.lead => WordBoundaryAt(text, i)
    /\ r.trail => WordBoundaryAt(text, i + Len(r.pat))

\* re.sub(pattern, replacement, text) from position i: the leftmost match
\* is replaced and the scan goes on after it
RECURSIVE re_sub_from(_, _, _)
re_sub_from(text, r, i) ==
    LET M == {j \in i..Len(text) : PatternMatchesAt(text, r, j)} IN
    IF M = {} THEN SubSeq(text, i, Len(text))
    ELSE LET j == CHOOSE m \in M : \A k \in M : m <= k IN
         SubSeq(text, i, j - 1) \o r.repl \o re_sub_from(text, r, j + Len(r.pat))

re_sub(r, text) == re_sub_from(text, r, 1)

UpperOf(c) ==
    CASE c = "l" -> "L" [] c = "d" -> "D" [] c = "i" -> "I" [] c = "c" -> "C"
      [] c = "m" -> "M" [] c = "u" -> "U" [] c = "v" -> "V" [] OTHER -> c

\* the same words with a capital first letter
Capital(word) == <<UpperOf(Head(word))>> \o Tail(word)

SuffixS == <<"(", "s", ")">>
SuffixES == <<"(", "e", "s", ")">>
WordLa == <<"l", "a">>
WordDescrita == <<"d", "e", "s", "c", "r", "i", "t", "a">>
WordIndicada == <<"i", "n", "d", "i", "c", "a", "d", "a">>
WordCuestion == <<"c", "u", "e", "s", "t", "i", OACUTE, "n">>
WordCuestiones == <<"c", "u", "e", "s", "t", "i", "o", "n", "e", "s">>
WordIncorreccion == <<"i", "n", "c", "o", "r", "r", "e", "c", "c", "i", OACUTE, "n">>
WordIncorrecciones == <<"i", "n", "c", "o", "r", "r", "e", "c", "c", "i", "o", "n", "e", "s">>
WordLimitacion == <<"l", "i", "m", "i", "t", "a", "c", "i", OACUTE, "n">>
WordLimitaciones == <<"l", "i", "m", "i", "t", "a", "c", "i", "o", "n", "e", "s">>
WordMaterial == <<"m", "a", "t", "e", "r", "i", "a", "l">>
WordUna == <<"u", "n", "a">>
WordVarias == <<"v", "a", "r", "i", "a", "s">>
UnaVarias == WordUna \o <<"/">> \o WordVarias
AlAlcance == <<" ", "a", "l", " ", "a", "l", "c", "a", "n", "c", "e">>

\* the forms of the plural markers: [marker, singular, plural]
Form(marker, singular, plural) == [marker |-> marker, singular |-> singular, plural |-> plural]

SimpleForms ==
    <<Form(WordLa \o SuffixS, WordLa, WordLa \o <<"s">>),
      Form(WordDescrita \o SuffixS, WordDescrita, WordDescrita \o <<"s">>),
      Form(WordIndicada \o SuffixS, WordIndicada, WordIndicada \o <<"s">>),
      Form(WordCuestion \o SuffixES, WordCuestion, WordCuestiones),
      Form(WordIncorreccion \o SuffixES, WordIncorreccion, WordIncorrecciones),
      Form(WordLimitacion \o SuffixES, WordLimitacion, WordLimitaciones),
      Form(WordMaterial \o SuffixES, WordMaterial, WordMaterial \o <<"e", "s">>)>>

PhraseForms ==
    <<Form(UnaVarias \o <<SPACE>> \o WordIncorreccion \o SuffixES \o <<SPACE>> \o WordMaterial \o SuffixES,
           WordUna \o <<SPACE>> \o WordIncorreccion \o <<SPACE>> \o WordMaterial,
           WordVarias \o <<SPACE>> \o WordIncorrecciones \o <<SPACE>> \o WordMaterial \o <<"e", "s">>),
      Form(UnaVarias \o <<SPACE>> \o WordLimitacion \o SuffixES \o AlAlcance,
           WordUna \o <<SPACE>> \o WordLimitacion \o AlAlcance,
           WordVarias \o <<SPACE>> \o WordLimitaciones \o AlAlcance),
      Form(UnaVarias \o <<SPACE>> \o WordLimitacion \o SuffixES,
           WordUna \o <<SPACE>> \o WordLimitacion,
           WordVarias \o <<SPACE>> \o WordLimitaciones),
      Form(UnaVarias \o <<SPACE>> \o WordIncorreccion \o SuffixES,
           WordUna \o <<SPACE>> \o WordIncorreccion,
           WordVarias \o <<SPACE>> \o WordIncorrecciones)>>

GenericForm == Form(UnaVarias, WordUna, WordVarias)

\* the form the count selects: singular for n == 1, plural otherwise
FormFor(f, n) == IF n = 1 THEN f.singular ELSE f.plural

\* a marker's lower-case pair followed by its capitalised pair
PairOf(f, n, lead, trail) ==
    <<Replacement(lead, f.marker, trail, FormFor(f, n)),
      Replacement(lead, Capital(f.marker), trail, Capital(FormFor(f, n)))>>

\* the list `replacements` of apply_plural_markers, in its order
replacements(n) ==
    Flatten([k \in 1..Len(SimpleForms) |-> PairOf(SimpleForms[k], n, TRUE, FALSE)])
    \o Flatten([k \in 1..Len(PhraseForms) |-> PairOf(PhraseForms[k], n, FALSE, FALSE)])
    \o PairOf(GenericForm, n, TRUE, TRUE)

\* the loop `for pattern, replacement in replacements: result = re.sub(...)`
RECURSIVE ApplyReplacements(_, _, _)
ApplyReplacements(rs, k, result) ==
    IF k > Len(rs) THEN result ELSE ApplyReplacements(rs, k + 1, re_sub(rs[k], result))

\* apply_plural_markers(text, n) for a str text
apply_plural_markers(text, n) ==
    IF text = <<>> THEN text ELSE ApplyReplacements(replacements(n), 1, text)

(***************************************************************************)
(* reports/informe_auditoria/logic.py: build_context.  The returned        *)
(* context is a record [vars, bloques]: vars are the entries whose keys    *)
(* are field names (data_in, the auxiliary variables, '_n_issues'),        *)
(* bloques the entries whose keys are block ids; no block id is a field    *)
(* name and no condition names a block id.  data_in holds no              *)
(* 'ano_cierre_ejercicio'.  Of the auxiliary       *)
(* variables the model keeps 'texto_fundamento_einf', cut to the phrase    *)
(* that holds plural markers; the others hold no marker.                   *)
(***************************************************************************)
KeyTipoOpinion == <<"t", "i", "p", "o", "_", "o", "p", "i", "n", "i", "o", "n">>
KeyNumSalvedades == <<"n", "u", "m", "_", "s", "a", "l", "v", "e", "d", "a", "d", "e", "s">>
KeyNumDesfavorables == <<"n", "u", "m", "_", "d", "e", "s", "f", "a", "v", "o", "r", "a", "b", "l", "e", "s">>
KeyMotivoCalificacion == <<"m", "o", "t", "i", "v", "o", "_", "c", "a", "l", "i", "f", "i", "c", "a", "c", "i", "o", "n">>
KeyNIssues == <<"_", "n", "_", "i", "s", "s", "u", "e", "s">>
KeyTextoFundamentoEinf == <<"t", "e", "x", "t", "o", "_", "f", "u", "n", "d", "a", "m", "e", "n", "t", "o", "_", "e", "i", "n", "f">>
KeyX == <<"x">>
Salvedades == <<"s", "a", "l", "v", "e", "d", "a", "d", "e", "s">>
Desfavorable == <<"d", "e", "s", "f", "a", "v", "o", "r", "a", "b", "l", "e">>
Favorable == <<"f", "a", "v", "o", "r", "a", "b", "l", "e">>
Incorreccion == <<"i", "n", "c", "o", "r", "r", "e", "c", "c", "i", "o", "n">>
FundamentoId == "parrafo_fundamento_calificacion"
BlankLine == <<"\n", "\n">>

\* data_in.get(key, default)
DictGet(d, key, default) == IF key \in DOMAIN d THEN d[key] ELSE default

\* d[key] = value
DictSet(d, key, value) == [k \in DOMAIN d \cup {key} |-> IF k = key THEN value ELSE d[k]]

\* int(v): [exc, n]; a str is stripped and read as an optionally signed
\* decimal, anything else that is no number is a TypeError
py_int(v) ==
    CASE v.ty \in {"int", "bool"} -> [exc |-> "", n |-> v.n]
      [] v.ty = "str" ->
            LET t == PyStrip(v.s)
                signed == t # <<>> /\ Head(t) \in {"+", "-"}
                digits == IF signed THEN Tail(t) ELSE t
            IN  IF digits # <<>> /\ \A i \in 1..Len(digits) : digits[i] \in Digits
                THEN [exc |-> "", n |-> (IF signed /\ Head(t) = "-" THEN -1 ELSE 1)
                                            * DigitsVal(digits, 0)]
                ELSE [exc |-> "ValueError", n |-> 0]
      [] OTHER -> [exc |-> "TypeError", n |-> 0]

Max2(a, b) == IF a > b THEN a ELSE b
Min2(a, b) == IF a < b THEN a ELSE b

\* the try block: int(data_in.get(key) or 1) clamped to 1..10, 1 on
\* ValueError / TypeError
issues_of(d, key) ==
    LET v == DictGet(d, key, PyNone)
        r == py_int(IF Truthy(v) THEN v ELSE PyInt(1))
    IN  IF r.exc # "" THEN 1 ELSE Max2(1, Min2(10, r.n))

\* step 4 of build_context: n_issues
n_issues_of(d) ==
    LET tipo_opinion == DictGet(d, KeyTipoOpinion, PyStr(Favorable)) IN
    IF PyEq(tipo_opinion, PyStr(Salvedades)) THEN issues_of(d, KeyNumSalvedades)
    ELSE IF PyEq(tipo_opinion, PyStr(Desfavorable)) THEN issues_of(d, KeyNumDesfavorables)
    ELSE 1

\* calcular_variables_auxiliares: 'texto_fundamento_einf' (limitacion_alcance
\* is not supplied, so it is 'no')
TextoFundamentoEinf(d) ==
    LET tipo_opinion == DictGet(d, KeyTipoOpinion, PyStr(Favorable))
        motivo == DictGet(d, KeyMotivoCalificacion, PyStr(<<>>))
    IN  IF PyEq(tipo_opinion, PyStr(Salvedades))
        THEN <<"e", "x", "i", "s", "t", "e", "n", " ">>
                 \o (IF PyEq(motivo, PyStr(Incorreccion))
                     THEN PhraseForms[1].marker ELSE PhraseForms[2].marker)
        ELSE <<>>

calcular_variables_auxiliares(d) ==
    [k \in {KeyTextoFundamentoEinf} |-> PyStr(TextoFundamentoEinf(d))]

\* context.update(other)
DictUpdate(d, other) ==
    [k \in DOMAIN d \cup DOMAIN other |-> IF k \in DOMAIN other THEN other[k] ELSE d[k]]

\* the first block whose id is 'parrafo_fundamento_calificacion' (0: none)
FundamentoBlock(blks) ==
    LET B == {k \in 1..Len(blks) : blks[k].id = FundamentoId} IN
    IF B = {} THEN 0 ELSE CHOOSE k \in B : \A j \in B : k <= j

\* fundamento_template: the template of the first rule of that block whose
\* condition holds in the context ([none, text])
fundamento_template(blks, ctx) ==
    IF FundamentoBlock(blks) = 0 THEN NoneStr
    ELSE evaluate_block(blks[FundamentoBlock(blks)], ctx).result

\* the prefix of the composite keys of instance i
KeyPrefix(tipo, i) ==
    (IF tipo = Salvedades THEN <<"s", "a", "l", "v", "e", "d", "a", "d", "_">> ELSE <<"d", "e", "s", "f", "a", "v", "o", "r", "a", "b", "l", "e", "_">>) \o NatText(i) \o <<"_", "_">>

\* tmp_context: the context with the fields of instance i put in place of
\* the unprefixed ones
tmp_context(ctx, d, tipo, i) ==
    LET prefix == KeyPrefix(tipo, i)
        fields == {SubSeq(key, Len(prefix) + 1, Len(key)) :
                      key \in {k \in DOMAIN d : StartsWithAt(k, prefix, 1)}}
    IN  [k \in DOMAIN ctx \cup fields |-> IF k \in fields THEN d[prefix \o k] ELSE ctx[k]]

\* the loop over the instances i..n: the non-empty renderings, in order
RECURSIVE InstanceParagraphs(_, _, _, _, _, _)
InstanceParagraphs(template, ctx, d, tipo, i, n) ==
    IF i > n THEN <<>>
    ELSE LET rendered == renderizar_plantilla(template, tmp_context(ctx, d, tipo, i)) IN
         (IF Strip(rendered) # <<>> THEN <<Strip(rendered)>> ELSE <<>>)
             \o InstanceParagraphs(template, ctx, d, tipo, i + 1, n)

\* step 6 of build_context: the blocks after the multi-paragraph fundamento
\* has been generated
FundamentoGenerated(d, blks, ctx, bloques, n) ==
    LET tipo == DictGet(d, KeyTipoOpinion, PyStr(Favorable))
        template == fundamento_template(blks, ctx)
        rendered_paragraphs == InstanceParagraphs(template.text, ctx, d, tipo.s, 1, n)
    IN  IF /\ (PyEq(tipo, PyStr(Salvedades)) \/ PyEq(tipo, PyStr(Desfavorable)))
           /\ n > 1
           /\ ~template.none /\ template.text # <<>>
           /\ rendered_paragraphs # <<>>
        THEN [id \in DOMAIN bloques \cup {FundamentoId} |->
                 IF id = FundamentoId THEN Join(BlankLine, rendered_paragraphs) ELSE bloques[id]]
        ELSE bloques

\* '(s)' in value or '(es)' in value or 'una/varias' in value
MayHoldMarker(text) ==
    Contains(text, SuffixS) \/ Contains(text, SuffixES) \/ Contains(text, UnaVarias)

\* step 7 of build_context on one value
PluralApplied(value, n) ==
    IF value.ty = "str" /\ MayHoldMarker(value.s)
    THEN PyStr(apply_plural_markers(value.s, n)) ELSE value

\* steps 1 to 4 of build_context: the context the blocks are processed in
ContextBeforeBlocks(d) ==
    DictSet(DictUpdate(d, calcular_variables_auxiliares(d)), KeyNIssues, PyInt(n_issues_of(d)))

\* build_context(data_in, config_dir) of a configuration that declares blks
build_context(d, blks) ==
    LET n == n_issues_of(d)
        ctx == ContextBeforeBlocks(d)
        bloques == FundamentoGenerated(d, blks, ctx, procesar_todos(blks, ctx), n)
    IN  [vars |-> [k \in DOMAIN ctx |-> PluralApplied(ctx[k], n)],
         bloques |-> [id \in DOMAIN bloques |-> PluralApplied(PyStr(bloques[id]), n).s]]

(***************************************************************************)
(* Specification SpecLogic: one call of apply_plural_markers(text, n) or   *)
(* of build_context(data_in).                                              *)
(***************************************************************************)
\* a text is made of at most MaxWords pieces; the count is at most MaxCount
MaxWords == 3
MaxCount == 2

PluralPieces ==
    {SimpleForms[k].marker : k \in 1..Len(SimpleForms)}
        \cup {UnaVarias, Capital(WordLa \o SuffixS), <<SPACE>>, <<"x">>, SuffixS, WordUna \o <<"/">>}

PluralTexts == {Flatten(ps) : ps \in UNION {[1..k -> PluralPieces] : k \in 0..MaxWords}}

Absent == [ty |-> "absent", n |-> 0, s |-> <<>>, el |-> <<>>]

\* the entry key -> v of a dict, none for Absent
DictEntry(key, v) == IF v = Absent THEN [k \in {} |-> PyNone] ELSE [k \in {key} |-> v]

OpinionTypes == {Absent, PyStr(Favorable), PyStr(Salvedades), PyStr(Desfavorable)}
IssueCounts ==
    {Absent, PyNone, PyInt(0), PyInt(2), PyInt(3), PyInt(11), PyInt(-1),
     PyStr(<<" ", "2">>), PyStr(<<"x">>), PyList(<<PyInt(2)>>)}
FieldValues == {Absent, PyInt(1), PyStr(WordLa \o SuffixS), PyStr(WordUna \o <<"/">> \o UnaVarias)}
InstanceValues == {Absent, PyStr(<<"b">>), PyStr(<<>>)}

\* the supplied count goes with the opinion type
CountKey(tipo) == IF tipo = PyStr(Desfavorable) THEN KeyNumDesfavorables ELSE KeyNumSalvedades
InstanceKey(tipo, i) ==
    KeyPrefix(IF tipo = PyStr(Desfavorable) THEN Desfavorable ELSE Salvedades, i) \o KeyX

DataIns ==
    {DictEntry(KeyTipoOpinion, tipo) @@ DictEntry(CountKey(tipo), num)
        @@ DictEntry(KeyMotivoCalificacion, motivo) @@ DictEntry(KeyX, x)
        @@ DictEntry(InstanceKey(tipo, 2), x2) @@ DictEntry(InstanceKey(tipo, 3), x3) :
        tipo \in OpinionTypes, num \in IssueCounts, motivo \in {Absent, PyStr(Incorreccion)},
        x \in FieldValues, x2 \in InstanceValues, x3 \in InstanceValues}

TemplateTX == <<"t", " ">> \o Tag(KeyX)
TemplateLasX == WordLa \o SuffixS \o <<" ">> \o Tag(KeyX)

FundamentoBlocks ==
    {<<>>,
     <<Block(FundamentoId, <<Rule(TextTrue, TemplateTX)>>)>>,
     <<Block(FundamentoId, <<Rule(CondXEq1, Tag(KeyX)), Rule(CondXEq2, TemplateTX)>>),
       Block("B", <<Rule(TextTrue, TemplateLasX)>>)>>,
     <<Block(FundamentoId, <<Rule(TextTrue, TemplateLasX)>>)>>}

InitLogic ==
    /\ CondIdle /\ context = [n \in {} |-> PyNone]
    /\ BlocksIdle /\ BuildIdle /\ DocIdle /\ EngineIdle /\ RenderIdle /\ TablesIdle /\ TempIdle
    /\ lgc_op = ""
    /\ lgc_result = <<>>
    /\ lgc_context = <<>>
    /\ \/ /\ lgc_pc = "apply_plural_markers"
          /\ lgc_text \in PluralTexts
          /\ lgc_n \in 1..MaxCount
          /\ data_in = <<>>
          /\ bloques_texto = <<>>
       \/ /\ lgc_pc = "build_context"
          /\ data_in \in DataIns
          /\ bloques_texto \in FundamentoBlocks
          /\ lgc_text = <<>>
          /\ lgc_n = 0

\* a call apply_plural_markers(lgc_text, lgc_n)
ApplyPluralMarkers ==
    /\ lgc_pc = "apply_plural_markers"
    /\ lgc_result' = apply_plural_markers(lgc_text, lgc_n)
    /\ lgc_op' = "apply_plural_markers"
    /\ lgc_pc' = "done"
    /\ UNCHANGED <<lgc_text, lgc_n, data_in, bloques_texto, lgc_context>>
    /\ UNCHANGED <<eng_vars, rnd_vars, tab_vars, tmp_vars, cond_vars, blk_vars, bld_vars, doc_vars>>

\* a call build_context(data_in) with the declared blocks bloques_texto
BuildContext ==
    /\ lgc_pc = "build_context"
    /\ lgc_context' = build_context(data_in, bloques_texto)
    /\ lgc_op' = "build_context"
    /\ lgc_pc' = "done"
    /\ UNCHANGED <<lgc_text, lgc_n, lgc_result, data_in, bloques_texto>>
    /\ UNCHANGED <<eng_vars, rnd_vars, tab_vars, tmp_vars, cond_vars, blk_vars, bld_vars, doc_vars>>

NextLogic == ApplyPluralMarkers \/ BuildContext

SpecLogic == InitLogic /\ [][NextLogic]_vars

\* ---- properties of the plural markers
\* the listed plural markers
PluralMarkers == {SimpleForms[k].marker : k \in 1..Len(SimpleForms)} \cup {UnaVarias}

HoldsPluralMarker(text) == \E m \in PluralMarkers : Contains(text, m)

\* C21: apply_plural_markers(text, n) returns a text that holds none of the
\* listed plural markers; a text that is one marker becomes its singular
\* form when n = 1 and its plural form when n > 1; a text that holds no
\* marker is returned unchanged.
C21_PluralMarkersResolved ==
    lgc_op = "apply_plural_markers" =>
        /\ ~HoldsPluralMarker(lgc_result)
        /\ \A k \in 1..Len(SimpleForms) :
               lgc_text = SimpleForms[k].marker => lgc_result = FormFor(SimpleForms[k], lgc_n)
        /\ lgc_text = UnaVarias => lgc_result = FormFor(GenericForm, lgc_n)
        /\ ~HoldsPluralMarker(lgc_text) => lgc_result = lgc_text

\* the issue count the call was given, for its opinion type
SuppliedCount == DictGet(data_in, CountKey(DictGet(data_in, KeyTipoOpinion, Absent)), PyNone)

IsMultiIssueType ==
    DictGet(data_in, KeyTipoOpinion, Absent) \in {PyStr(Salvedades), PyStr(Desfavorable)}

\* the rendering of instance i: the template rendered with the values of the
\* keys prefixed 'salvedad_i__' / 'desfavorable_i__' in place of the fields
RenderingOfInstance(template, i) ==
    renderizar_plantilla(template,
        tmp_context(ContextBeforeBlocks(data_in), data_in, data_in[KeyTipoOpinion].s, i))

\* C22: the context build_context returns has an issue count within 1..10
\* (1 when the opinion type is neither 'salvedades' nor 'desfavorable' or
\* the supplied count is missing or unparsable); for those opinion types,
\* n > 1 and a matching rule of parrafo_fundamento_calificacion, the block
\* is the renderings of instances 1..n joined by a blank line (plural
\* markers resolved); no string value holds a listed plural marker.
C22_BuildContext ==
    lgc_op = "build_context" =>
        LET n == lgc_context.vars[KeyNIssues].n
            template == fundamento_template(bloques_texto, ContextBeforeBlocks(data_in))
        IN  /\ n \in 1..10
            /\ (~IsMultiIssueType \/ SuppliedCount = PyNone \/ py_int(SuppliedCount).exc # "")
                   => n = 1
            /\ (IsMultiIssueType /\ n > 1 /\ ~template.none)
                   => lgc_context.bloques[FundamentoId]
                        = apply_plural_markers(
                              Join(BlankLine, [i \in 1..n |-> RenderingOfInstance(template.text, i)]),
                              n)
            /\ \A k \in DOMAIN lgc_context.vars :
                   lgc_context.vars[k].ty = "str" => ~HoldsPluralMarker(lgc_context.vars[k].s)
            /\ \A id \in DOMAIN lgc_context.bloques : ~HoldsPluralMarker(lgc_context.bloques[id])

(***************************************************************************)
(* XMLWordEngineAdapter: the temporary directories.  Each engine instance  *)
(* lives in one call of _render_with_xml_engine: it is constructed, the    *)
(* fragments are inserted, the later phases run, and the call returns (or  *)
(* an exception is caught and the call returns None).  The instance is     *)
(* referenced by the local variable engine only, so it is destroyed, and   *)
(* __del__ runs, when the call ends (CPython counts references).  Several  *)
(* renders may be in progress at once, one engine instance each.           *)
(***************************************************************************)
MaxEngines == 2
MaxFragments == 1

Engines == 1..MaxEngines

\* the names tempfile.mkdtemp can return, and no directory
DirNames == 1..(MaxEngines + 1)
NoDir == 0

\* what template_path can be: no file, a file that is no zip archive, an
\* archive without word/document.xml, one whose document.xml does not
\* parse, a readable template
Templates == {"missing", "notzip", "nodoc", "badxml", "good"}

\* what block_file can be: the same, and a document without w:body, one
\* whose marker no paragraph holds, one that is inserted
Fragments == {"missing", "notzip", "nodoc", "badxml", "nobody", "nomarker", "good"}

\* tempfile.mkdtemp(): a name that no existing directory has
mkdtemp(dirs) == DirNames \ dirs

\* shutil.rmtree(d, ignore_errors=True)
rmtree(dirs, d) == dirs \ {d}

\* a finally clause that leaves the directory
keep_block_temp(dirs, block_temp) == dirs

\* finally: shutil.rmtree(block_temp, ignore_errors=True)
finally_block_temp(dirs, block_temp) == rmtree(dirs, block_temp)

\* a finaliser that leaves the directory
del_nothing(dirs, temp_dir) == dirs

\* XMLWordEngineAdapter.__del__: temp_dir is NoDir when the instance has no
\* attribute temp_dir
engine_del(dirs, temp_dir) ==
    IF temp_dir # NoDir /\ temp_dir \in dirs THEN rmtree(dirs, temp_dir) ELSE dirs

\* the statements of _insert_conditional_block after mkdtemp raise
BlockRaises(file) == file \in {"notzip", "nodoc", "badxml"}

InitTemp ==
    /\ CondIdle /\ context = [n \in {} |-> PyNone]
    /\ BlocksIdle /\ BuildIdle /\ DocIdle /\ EngineIdle /\ RenderIdle /\ TablesIdle /\ LogicIdle
    /\ tmp_pc = [i \in Engines |-> "new"]
    /\ tmp_dirs = {}
    /\ tmp_owner = [i \in Engines |-> NoDir]
    /\ tmp_created = {}
    /\ tmp_env = [i \in Engines |-> [block_temp |-> NoDir, calls |-> 0]]

TempFrame == UNCHANGED <<eng_vars, rnd_vars, tab_vars, lgc_vars, cond_vars, blk_vars, bld_vars, doc_vars>>

\* __init__ up to self.temp_dir = tempfile.mkdtemp()
EngineInit(i) ==
    /\ tmp_pc[i] = "new"
    /\ \E template \in Templates :
        IF template = "missing"
        THEN /\ tmp_pc' = [tmp_pc EXCEPT ![i] = "raised"]
             /\ UNCHANGED <<tmp_dirs, tmp_owner, tmp_created>>
        ELSE \E d \in mkdtemp(tmp_dirs) :
             /\ tmp_dirs' = tmp_dirs \cup {d}
             /\ tmp_owner' = [tmp_owner EXCEPT ![i] = d]
             /\ tmp_created' = tmp_created \cup {d}
             /\ tmp_pc' = [tmp_pc EXCEPT ![i] = "extract"]
    /\ UNCHANGED tmp_env
    /\ TempFrame

\* __init__ from zipfile.ZipFile(...) to its end, on what the template
\* turns out to be
ExtractTemplate(i) ==
    /\ tmp_pc[i] = "extract"
    /\ \E template \in Templates \ {"missing"} :
        tmp_pc' = [tmp_pc EXCEPT ![i] = IF template = "good" THEN "ready" ELSE "raised"]
    /\ UNCHANGED <<tmp_dirs, tmp_owner, tmp_created, tmp_env>>
    /\ TempFrame

\* _insert_conditional_block up to block_temp = tempfile.mkdtemp()
EnterConditionalBlock(i) ==
    /\ tmp_pc[i] = "ready"
    /\ tmp_env[i].calls < MaxFragments
    /\ \E file \in Fragments :
        IF file = "missing"
        THEN /\ tmp_env' = [tmp_env EXCEPT ![i].calls = @ + 1]
             /\ UNCHANGED <<tmp_pc, tmp_dirs, tmp_created>>
        ELSE \E d \in mkdtemp(tmp_dirs) :
             /\ tmp_env' = [tmp_env EXCEPT ![i].calls = @ + 1, ![i].block_temp = d]
             /\ tmp_dirs' = tmp_dirs \cup {d}
             /\ tmp_created' = tmp_created \cup {d}
             /\ tmp_pc' = [tmp_pc EXCEPT ![i] = "block"]
    /\ UNCHANGED tmp_owner
    /\ TempFrame

\* _insert_conditional_block, the try statement on what the fragment turns
\* out to be: its body returns, raises or completes, and the finally clause
\* runs
LeaveConditionalBlock(i) ==
    /\ tmp_pc[i] = "block"
    /\ tmp_dirs' = finally_block_temp(tmp_dirs, tmp_env[i].block_temp)
    /\ \E file \in Fragments \ {"missing"} :
        /\ tmp_pc' = [tmp_pc EXCEPT ![i] = IF BlockRaises(file) THEN "raised" ELSE "ready"]
        /\ tmp_env' = [tmp_env EXCEPT ![i].block_temp = NoDir,
                                      ![i].calls = IF BlockRaises(file) THEN 0 ELSE @]
    /\ UNCHANGED <<tmp_owner, tmp_created>>
    /\ TempFrame

\* _render_with_xml_engine, the phases after the fragments: they complete
\* and the function returns output_path, or one raises
LaterPhases(i) ==
    /\ tmp_pc[i] = "ready"
    /\ \E completes \in BOOLEAN :
        tmp_pc' = [tmp_pc EXCEPT ![i] = IF completes THEN "returned" ELSE "raised"]
    /\ tmp_env' = [tmp_env EXCEPT ![i].calls = 0]
    /\ UNCHANGED <<tmp_dirs, tmp_owner, tmp_created>>
    /\ TempFrame

\* the call of _render_with_xml_engine ends (after the except clause when
\* something was raised): the instance is destroyed and __del__ runs
EngineDel(i) ==
    /\ tmp_pc[i] \in {"returned", "raised"}
    /\ tmp_dirs' = engine_del(tmp_dirs, tmp_owner[i])
    /\ tmp_owner' = [tmp_owner EXCEPT ![i] = NoDir]
    /\ tmp_pc' = [tmp_pc EXCEPT ![i] = IF tmp_pc[i] = "returned" THEN "destroyed"
                                       ELSE "destroyed_after_raise"]
    /\ UNCHANGED <<tmp_created, tmp_env>>
    /\ TempFrame

Construct == \E i \in Engines : EngineInit(i)
Extract == \E i \in Engines : ExtractTemplate(i)
InsertConditionalBlockEnters == \E i \in Engines : EnterConditionalBlock(i)
InsertConditionalBlockLeaves == \E i \in Engines : LeaveConditionalBlock(i)
RenderEnds == \E i \in Engines : LaterPhases(i)
Del == \E i \in Engines : EngineDel(i)

NextTemp ==
    \/ Construct
    \/ Extract
    \/ InsertConditionalBlockEnters
    \/ InsertConditionalBlockLeaves
    \/ RenderEnds
    \/ Del

\* a statement that has begun runs to its end, and a call that has ended
\* destroys its engine; nothing obliges a render to begin or a fragment to
\* be inserted
TempFairness ==
    \A i \in Engines :
        /\ WF_vars(ExtractTemplate(i))
        /\ WF_vars(LeaveConditionalBlock(i))
        /\ WF_vars(LaterPhases(i))
        /\ WF_vars(EngineDel(i))

SpecTemp == InitTemp /\ [][NextTemp]_vars /\ TempFairness

Destroyed(i) == tmp_pc[i] \in {"destroyed", "destroyed_after_raise"}

\* the directories the engine instances hold: self.temp_dir of every
\* instance that is not destroyed, and block_temp of every call of
\* _insert_conditional_block in progress
HeldDirs(i) ==
    (IF tmp_owner[i] = NoDir THEN {} ELSE {tmp_owner[i]})
    \cup (IF tmp_env[i].block_temp = NoDir THEN {} ELSE {tmp_env[i].block_temp})

\* no two engine instances hold the same directory, and the directory of a
\* fragment is not the extraction directory
NoSharedDirectory ==
    /\ \A i, j \in Engines : i # j => HeldDirs(i) \cap HeldDirs(j) = {}
    /\ \A i \in Engines : tmp_env[i].block_temp # NoDir => tmp_env[i].block_temp # tmp_owner[i]

\* the step that leaves _insert_conditional_block leaves no directory of
\* the fragment
BlockDirRemovedOnExit ==
    \A i \in Engines :
        tmp_pc[i] = "block" /\ tmp_pc'[i] # "block" => tmp_env[i].block_temp \notin tmp_dirs'

\* the step that destroys an engine instance leaves no extraction directory
ExtractionDirRemovedOnDispose ==
    \A i \in Engines :
        ~Destroyed(i) /\ Destroyed(i)' => tmp_owner[i] \notin tmp_dirs'

\* a directory exists only while some engine instance holds it
OnlyHeldDirsExist == tmp_dirs = UNION {HeldDirs(i) : i \in Engines}

MaxTextLen == 6

LoopTexts == {<<>>, KeyAB, KeyAB \o KeyAB, <<"a", "a", "b", "b">>, <<" ">> \o KeyAB \o <<" ">>, KeyCD}
LoopKeys == {KeyAB, <<>>}
LoopValues == {<<"X">>, <<"b">>, <<"b", "a">>, KeyAB, <<"a">> \o KeyAB}

InitLoop ==
    /\ CondIdle /\ context = [n \in {} |-> PyNone]
    /\ BlocksIdle /\ BuildIdle /\ EngineIdle /\ RenderIdle /\ TablesIdle /\ LogicIdle /\ TempIdle
    /\ paragraphs \in {<<ParagraphOf(pieces)>> :
                          pieces \in UNION {Splits(t, n) : t \in LoopTexts, n \in 1..MaxNodes}}
    /\ render_ctx \in {<<Entry(key, PyStr(value))>> : key \in LoopKeys, value \in LoopValues}
    /\ rv_pc \in {"replace_variables", "remove_marker_from_paragraph"}
    /\ engine_kind = "xml"
    /\ ctx_filtered = <<>>
    /\ rv_para = 1
    /\ rv_key = 1
    /\ rv_replaced = [p \in 1..1 |-> <<>>]

LoopFrame ==
    UNCHANGED <<eng_vars, rnd_vars, tab_vars, lgc_vars, tmp_vars, cond_vars, blk_vars, bld_vars,
                render_ctx, engine_kind, rv_para, rv_key, rv_replaced>>

\* replace_variables(render_ctx) up to the while statement for the
\* paragraph and the one entry of the context
StartReplaceVariables ==
    /\ rv_pc = "replace_variables"
    /\ ctx_filtered' = context_filtered(render_ctx)
    /\ rv_pc' = IF context_filtered(render_ctx) = <<>> \/ get_paragraph_text(paragraphs[1]) = <<>>
                THEN "done" ELSE "while"
    /\ UNCHANGED paragraphs
    /\ LoopFrame

\* _remove_marker_from_paragraph(para, marker), the marker being the key of
\* the entry, up to its while statement
StartRemoveMarker ==
    /\ rv_pc = "remove_marker_from_paragraph"
    /\ ctx_filtered' = <<Entry(render_ctx[1].key, PyStr(<<>>))>>
    /\ rv_pc' = IF render_ctx[1].key = <<>> THEN "done" ELSE "while"
    /\ UNCHANGED paragraphs
    /\ LoopFrame

\* while marker in para_text: the marker occurs, the body is entered
WhileTest ==
    /\ rv_pc = "while"
    /\ MarkerInParaText(paragraphs[1], ctx_filtered[1].key)
    /\ Len(get_paragraph_text(paragraphs[1])) <= MaxTextLen
    /\ rv_pc' = "body"
    /\ UNCHANGED <<ctx_filtered, paragraphs>>
    /\ LoopFrame

\* the body of the loop: one replacement, and para_text is read again
WhileBody ==
    /\ rv_pc = "body"
    /\ paragraphs' = [paragraphs EXCEPT ![1] =
           replace_marker_in_paragraph_xml(@, ctx_filtered[1].key, PyStrOf(ctx_filtered[1].value))]
    /\ rv_pc' = "while"
    /\ UNCHANGED ctx_filtered
    /\ LoopFrame

\* while marker in para_text: the marker does not occur, the loop ends
WhileExit ==
    /\ rv_pc = "while"
    /\ ~MarkerInParaText(paragraphs[1], ctx_filtered[1].key)
    /\ rv_pc' = "done"
    /\ UNCHANGED <<ctx_filtered, paragraphs>>
    /\ LoopFrame

NextLoop == StartReplaceVariables \/ StartRemoveMarker \/ WhileTest \/ WhileBody \/ WhileExit

\* the interpreter goes on executing the statements
SpecLoop == InitLoop /\ [][NextLoop]_vars /\ WF_vars(NextLoop)

\* the paragraph's text has grown beyond what the loop is followed for
TextOutgrown == Len(get_paragraph_text(paragraphs[1])) > MaxTextLen

\* C29: the loop that repeats the replacement of a key in a paragraph ends
\* for every key and every value, a value that holds its key and the empty
\* key included (a run whose text outgrows MaxTextLen is not followed to
\* its end and is not counted against the claim)
C29_LoopTerminates == <>(rv_pc = "done" \/ TextOutgrown)

\* ---- one replacement
\* the paragraph `after` is what one replacement of the first occurrence of
\* marker by value makes of the paragraph `before`: the text is
\* T[0..s) + value + T[e..), the text nodes are as many as before, and a
\* node that lies outside [s, e) is as it was
OneReplacement(before, after, marker, value) ==
    LET T == get_paragraph_text(before)
        s == IndexOf(T, marker) - 1
        e == s + Len(marker)
    IN  /\ get_paragraph_text(after) = SubSeq(T, 1, s) \o value \o SubSeq(T, e + 1, Len(T))
        /\ Len(after.texts) = Len(before.texts)
        /\ \A k \in 1..Len(before.texts) :
               (\/ NodeStart(before, k) + Len(before.texts[k].text) <= s
                \/ NodeStart(before, k) >= e)
                   => after.texts[k] = before.texts[k]

\* C30: one step of _replace_marker_in_paragraph_xml on a paragraph whose
\* text T holds the first occurrence of a non-empty marker at [s, e) leaves
\* the text T[0..s) + value + T[e..), however T is cut into text nodes;
\* it changes no text node that lies outside [s, e), neither its text nor
\* its attributes, and it adds and removes no text node
C30_OneReplacement ==
    [][rv_pc = "body" /\ rv_pc' = "while" /\ ctx_filtered[1].key # <<>>
          => OneReplacement(paragraphs[1], paragraphs'[1], ctx_filtered[1].key,
                            PyStrOf(ctx_filtered[1].value))]_vars

\* ' ab ' cut into ' a' and 'b ': the marker 'ab' lay across both nodes and
\* was replaced by 'X'
C30_Witness ==
    /\ rv_pc = "while"
    /\ ctx_filtered # <<>> /\ ctx_filtered[1].key = KeyAB
    /\ Len(paragraphs[1].texts) = 2
    /\ paragraphs[1].texts[1] = TextNode(<<" ", "X">>, TRUE)
    /\ paragraphs[1].texts[2] = TextNode(<<" ">>, TRUE)

====
